---------------------------- MODULE Spec2Model ----------------------------
(***************************************************************************)
(* A model of the JavaScript leak finder: the retaining-path analysis of   *)
(* leak_finder.LeakFinder, the heap snapshot parser of                     *)
(* leak_finder.Snapshotter and the suppression matcher of suppressions.py. *)
(* Each component has its own specification over the shared variables:     *)
(*   Spec       FindLeaks and the retaining-path search                    *)
(*   SpecFair   FindLeaks, followed to its end                             *)
(*   SpecSnap   Snapshotter.GetSnapshot                                    *)
(*   SpecKinds  GetSnapshot on payloads with several tables of kinds       *)
(*   SpecMeta, SpecCut, SpecShift  GetSnapshot on malformed payloads       *)
(*   SpecAgain  GetSnapshot called twice on one Snapshotter                *)
(*   SpecSupp   Suppression construction and Match                         *)
(*   SpecRead   the reading of a suppression file                          *)
(*   SpecFilter the filtering of the candidates by the suppressions        *)
(***************************************************************************)
EXTENDS Integers, Sequences, FiniteSets, TLC

VARIABLES
  \* ---- the graph handed to LeakFinder.FindLeaks (Node / Edge objects)
  nodes,                      \* set(Node): node identities
  class_name,                 \* Node.class_name, a string as a sequence of characters
  edges_to,                   \* Node.edges_to: [Edge], edges ending at the node
  edges_from,                 \* Node.edges_from: [Edge], edges leaving the node
  \* ---- LeakFinder fields
  container_description,      \* LeakFinder._container_description: [[str]]
  bad_stop_node_description,  \* LeakFinder._bad_stop_node_description: [[str]]
  stacktrace_prefix,          \* LeakFinder._stacktrace_prefix
  \* ---- locals of the FindLeaks generator
  pc,                         \* position of the generator
  stop_nodes,
  bad_stop_nodes,
  containers,
  found_container_edges,
  container_name,             \* Node.container_name, set on container nodes
  pending,                    \* containers the outer loop has not visited yet
  container,                  \* the outer loop's current container (0: none)
  edge_pos,                   \* position of the inner loop in container.edges_from
  leaks,                      \* the LeakNode objects yielded so far
  error,                      \* message of the Error raised ("" if none)
  search,                     \* result of a direct _FindRetainingPaths call
  log,                        \* history: one record per element edge examined
  \* ---- Snapshotter.GetSnapshot
  client,                     \* the inspector client: the heap it will hand out
  snapshotter,                \* the Snapshotter object: its attributes and the
                              \* Node and Edge objects it has created
  spc,                        \* position of GetSnapshot
  ix,                         \* _ParseSnapshot: index of the next node record
  edge_start_ix,              \* _ParseSnapshot: edge_start_ix
  snap_error,                 \* the exception GetSnapshot raised, if any
  \* ---- Suppression.Match
  suppression,                \* the Suppression object
  report,                     \* the class name and stack frames handed to Match
  result,                     \* what Match returned
  mpc,                        \* position of the caller of Match
  \* ---- suppressions.ReadSuppressionsFromFile
  fp,                         \* the lines of the file
  rd,                         \* the locals: line_no, description, class_name,
                              \* stack, in_suppression, result
  rpc,                        \* position of ReadSuppressionsFromFile
  read_error,                 \* the exception it raised, if any
  \* ---- JSLeakCheck._MatchSuppressions
  loaded,                     \* JSLeakCheck._suppressions: [Suppression]
  candidates,                 \* the argument leaks: class name and stack of each
  leak_ix,                    \* number of leaks the loop has gone through
  matched_suppressions,       \* {index -> count}
  new_leaks,                  \* [{suppression, count, leak}]
  handled,                    \* history: what the loop did with each leak
  fpc                         \* position of _MatchSuppressions

leakVars == <<nodes, class_name, edges_to, edges_from, container_description,
              bad_stop_node_description, stacktrace_prefix, pc, stop_nodes,
              bad_stop_nodes, containers, found_container_edges, container_name,
              pending, container, edge_pos, leaks, error, search, log>>

snapVars == <<client, snapshotter, spc, ix, edge_start_ix, snap_error>>

suppVars == <<suppression, report, result, mpc>>

readVars == <<fp, rd, rpc, read_error>>

filterVars == <<loaded, candidates, leak_ix, matched_suppressions, new_leaks,
                handled, fpc>>

vars == <<leakVars, snapVars, suppVars, readVars, filterVars>>

-----------------------------------------------------------------------------
(* Generic helpers *)

Range(s) == {s[i] : i \in 1..Len(s)}

Last(s) == s[Len(s)]

RECURSIVE Reverse(_)
Reverse(s) == IF s = <<>> THEN <<>> ELSE Append(Reverse(Tail(s)), Head(s))

\* str.startswith
StartsWith(s, p) == Len(s) >= Len(p) /\ SubSeq(s, 1, Len(p)) = p

\* '.'.join(names)
RECURSIVE Join(_)
Join(names) ==
  IF names = <<>> THEN ""
  ELSE IF Len(names) = 1 THEN names[1]
  ELSE names[1] \o "." \o Join(Tail(names))

-----------------------------------------------------------------------------
(* Bounds and program constants *)

MaxDepth == 30     \* max_depth of _FindRetainingPaths
NumBase  == 5      \* nodes of the small graphs
MaxEdges == 4      \* edges a small graph has besides Pool[1]
MaxTail  == 31     \* longest retaining chain of the long-chain graphs

-----------------------------------------------------------------------------
(* Input graphs *)

cnObject  == <<"O","b","j","e","c","t">>
cnWindow  == <<"W","i","n","d","o","w">>
cnWindowT == <<"W","i","n","d","o","w"," ","/"," ","t">>
cnWindows == <<"W","i","n","d","o","w","s">>

E(f, t, ty, nm, id) ==
  [from_node |-> f, to_node |-> t, type_string |-> ty, name_string |-> nm, eid |-> id]

\* The edges a small graph is drawn from.  Node 1 plays a root object, node 2
\* an array, nodes 3 and 4 its entries, node 5 another retainer.  Every small
\* graph has the first edge.
Pool == <<
  E(1, 2, "property", "c", 1),
  E(2, 3, "element",  "0", 2),
  E(2, 4, "element",  "1", 3),
  E(5, 3, "property", "x", 4),
  E(3, 4, "property", "x", 5),
  E(4, 3, "property", "x", 6),
  E(1, 5, "property", "b", 7),
  E(1, 5, "property", "x", 8),
  E(3, 3, "property", "x", 9),
  E(1, 2, "property", "d", 10),
  E(1, 5, "property", "d", 11),
  E(5, 4, "element",  "0", 12),
  E(3, 5, "property", "x", 13),
  E(2, 3, "property", "x", 14),
  E(2, 3, "element",  "0", 15),
  E(1, 5, "element",  "b", 16),
  E(4, 5, "property", "x", 17) >>

PoolIndex == [i \in 1..Len(Pool) |-> i]

EdgesOfSubset(S) ==
  LET chosen == SelectSeq(PoolIndex, LAMBDA i : i \in S)
  IN  [k \in 1..Len(chosen) |-> Pool[chosen[k]]]

ClassChoices ==
  { [n \in 1..NumBase |-> cnObject],
    [n \in 1..NumBase |-> IF n = 5 THEN cnWindow ELSE cnObject],
    [n \in 1..NumBase |-> IF n = 2 THEN cnWindowT ELSE cnObject] }

\* The small graphs with at most maxEdges edges besides Pool[1].
SmallGraphsUpTo(maxEdges) ==
  { [n |-> NumBase, cls |-> c, edges |-> EdgesOfSubset(S),
     fromRev |-> FALSE, toRev |-> FALSE] :
      S \in {{1} \cup T : T \in {U \in SUBSET (2..Len(Pool)) : Cardinality(U) <= maxEdges}},
      c \in ClassChoices }

SmallGraphs == SmallGraphsUpTo(MaxEdges)

\* Long chains: 1 is a root, 2 (and 3 when two) an array, 4 and 5 entries,
\* 4 is retained by 5, 5 by a chain 6, 7, ..., 5 + len whose last node has no
\* retainer; node 2 is also an entry of itself.  fromRev and toRev reverse the
\* edges_from and the edges_to lists.
ChainEdges(len, two) ==
  LET head == <<E(1, 2, "property", "c", 1)>>
              \o (IF two THEN <<E(1, 3, "property", "c", 2)>> ELSE <<>>)
              \o <<E(2, 4, "element", "0", 3)>>
              \o (IF two THEN <<E(3, 5, "element", "0", 4)>>
                         ELSE <<E(2, 5, "element", "1", 4)>>)
              \o <<E(5, 4, "property", "x", 5), E(2, 2, "element", "2", 6)>>
  IN  head \o [k \in 1..len |-> E(5 + k, 4 + k, "property", "x", 6 + k)]

ChainGraphs ==
  { [n |-> 5 + len,
     cls |-> [m \in 1..(5 + len) |-> IF m = 5 + len /\ len > 0 THEN lc
                                     ELSE IF m = 1 THEN cnWindows ELSE cnObject],
     edges |-> ChainEdges(len, two),
     fromRev |-> fr, toRev |-> tr] :
      len \in 0..MaxTail, two \in BOOLEAN, fr \in BOOLEAN, tr \in BOOLEAN,
      lc \in {cnObject, cnWindow} }

ConfigA == [containers |-> << <<"c">> >>,          bad |-> << <<"b">> >>,      prefix |-> ""]
ConfigB == [containers |-> << <<"c">>, <<"d">> >>, bad |-> <<>>,               prefix |-> ""]
ConfigC == [containers |-> << <<"c">> >>,          bad |-> << <<"b", "x">> >>, prefix |-> "w."]

MaxTermEdges == 2    \* edges of the graphs of the termination runs, besides Pool[1]
MaxTermTail  == 2    \* retaining chain of the long-chain graphs of those runs

\* The inputs of the runs that are followed to their end.
TermInputs ==
  { [g |-> g, cfg |-> cfg] :
      g \in SmallGraphsUpTo(MaxTermEdges), cfg \in {ConfigA, ConfigB, ConfigC} }
  \cup { [g |-> g, cfg |-> ConfigA] :
            g \in {h \in ChainGraphs :
                     \/ h.n <= 5 + MaxTermTail
                     \/ h.n = 5 + MaxTail /\ ~h.fromRev /\ ~h.toRev} }

LeakInputs ==
  { [g |-> g, cfg |-> cfg] : g \in SmallGraphs, cfg \in {ConfigA, ConfigB, ConfigC} }
  \cup { [g |-> g, cfg |-> ConfigA] : g \in ChainGraphs }

EdgesTo(g, n) ==
  LET own == SelectSeq(g.edges, LAMBDA e : e.to_node = n)
  IN  IF g.toRev THEN Reverse(own) ELSE own

EdgesFrom(g, n) ==
  LET own == SelectSeq(g.edges, LAMBDA e : e.from_node = n)
  IN  IF g.fromRev THEN Reverse(own) ELSE own

-----------------------------------------------------------------------------
(* LeakFinder *)

\* Mutant: only the class name 'Window' itself counts.
IsWindow_ExactOnly(node) == class_name[node] = cnWindow

\* The test of FindLeaks for a Window object.
IsWindow(node) ==
  class_name[node] = cnWindow \/ StartsWith(class_name[node], cnWindow \o <<" ","/"," ">>)

RECURSIVE IsRetainedByEdges_FirstRetainerOnly(_, _)
\* Mutant: only the first retainer with the wanted name is followed.
IsRetainedByEdges_FirstRetainerOnly(node, edge_names) ==
  IF edge_names = <<>> THEN TRUE
  ELSE LET edge_name == edge_names[Len(edge_names)]
           hits == {i \in 1..Len(edges_to[node]) :
                      edges_to[node][i].name_string = edge_name}
       IN  /\ hits # {}
           /\ LET first == CHOOSE i \in hits : \A j \in hits : i <= j
              IN  IsRetainedByEdges_FirstRetainerOnly(
                    edges_to[node][first].from_node,
                    SubSeq(edge_names, 1, Len(edge_names) - 1))

\* LeakFinder._IsRetainedByEdges
RECURSIVE IsRetainedByEdges(_, _)
IsRetainedByEdges(node, edge_names) ==
  IF edge_names = <<>> THEN TRUE
  ELSE LET edge_name == edge_names[Len(edge_names)]
       IN  \E i \in 1..Len(edges_to[node]) :
             /\ edges_to[node][i].name_string = edge_name
             /\ IsRetainedByEdges(edges_to[node][i].from_node,
                                  SubSeq(edge_names, 1, Len(edge_names) - 1))

RECURSIVE FindRetainingPaths(_, _, _)
RECURSIVE RetainingPathsLoop(_, _, _, _)

\* Mutant: a node without incoming edges does not end a path.
FindRetainingPaths_NoRootTest(node, visited, stop) ==
  IF Len(visited) > MaxDepth THEN <<>>
  ELSE IF node \in stop THEN <<visited>>
  ELSE RetainingPathsLoop(node, visited, stop, 1)

\* Mutant: a node all of whose retainers are on the path already ends a path.
FindRetainingPaths_DeadEndYields(node, visited, stop) ==
  IF Len(visited) > MaxDepth THEN <<>>
  ELSE IF \/ edges_to[node] = <<>>
          \/ node \in stop
          \/ \A i \in 1..Len(edges_to[node]) :
               edges_to[node][i].from_node \in Range(visited)
       THEN <<visited>>
  ELSE RetainingPathsLoop(node, visited, stop, 1)

\* Mutant: the depth limit cuts paths of MaxDepth nodes too.
FindRetainingPaths_OffByOne(node, visited, stop) ==
  IF Len(visited) >= MaxDepth THEN <<>>
  ELSE IF edges_to[node] = <<>> \/ node \in stop THEN <<visited>>
  ELSE RetainingPathsLoop(node, visited, stop, 1)

\* The paths the generator yields, in the order it yields them.
FindRetainingPaths(node, visited, stop) ==
  IF Len(visited) > MaxDepth THEN <<>>
  ELSE IF edges_to[node] = <<>> \/ node \in stop THEN <<visited>>
  ELSE RetainingPathsLoop(node, visited, stop, 1)

\* Mutant: only the first incoming edge of a node is followed.
RetainingPathsLoop_FirstOnly(node, visited, stop, i) ==
  IF i > 1 THEN <<>>
  ELSE LET edge == edges_to[node][i]
       IN  IF edge.from_node \notin Range(visited)
           THEN FindRetainingPaths(edge.from_node, Append(visited, edge.from_node), stop)
           ELSE <<>>

\* The loop over node.edges_to, from position i on.
RetainingPathsLoop(node, visited, stop, i) ==
  IF i > Len(edges_to[node]) THEN <<>>
  ELSE LET edge == edges_to[node][i]
           sub  == IF edge.from_node \notin Range(visited)
                   THEN FindRetainingPaths(edge.from_node,
                                           Append(visited, edge.from_node), stop)
                   ELSE <<>>
       IN  sub \o RetainingPathsLoop(node, visited, stop, i + 1)

\* Index of the first description the node is retained by, 0 if none.
FirstMatch(node, descriptions) ==
  LET hits == {i \in 1..Len(descriptions) : IsRetainedByEdges(node, descriptions[i])}
  IN  IF hits = {} THEN 0 ELSE CHOOSE i \in hits : \A j \in hits : i <= j

\* Mutant: a container is not made a bad stop node.
BadStopNodesOf_OnlyBadChains ==
  {n \in nodes : ~IsWindow(n) /\ FirstMatch(n, bad_stop_node_description) > 0}

\* bad_stop_nodes after the first loop of FindLeaks.
BadStopNodesOf ==
  {n \in nodes : /\ ~IsWindow(n)
                 /\ \/ FirstMatch(n, bad_stop_node_description) > 0
                    \/ FirstMatch(n, container_description) > 0}

ContainersOf ==
  {n \in nodes : ~IsWindow(n) /\ FirstMatch(n, container_description) > 0}

StopNodesOf == {n \in nodes : IsWindow(n)} \cup BadStopNodesOf

ContainerNameOf(n) == Join(container_description[FirstMatch(n, container_description)])

\* The descriptions the check after the first loop does not find.
MissingContainers(found) ==
  {i \in 1..Len(container_description) : Join(container_description[i]) \notin found}

\* Mutant: only the first yielded path is looked at.
FirstGoodPath_OnlyFirst(paths, bad) ==
  IF paths # <<>> /\ Last(paths[1]) \notin bad THEN 1 ELSE 0

\* Position of the first yielded path that does not end in a bad stop node.
FirstGoodPath(paths, bad) ==
  LET good == {i \in 1..Len(paths) : Last(paths[i]) \notin bad}
  IN  IF good = {} THEN 0 ELSE CHOOSE i \in good : \A j \in good : i <= j

\* The search for one element and what FindLeaks makes of its paths: the stop
\* nodes afterwards, and whether no good path was found.
ExamineResult(node, stop) ==
  LET paths == FindRetainingPaths(node, <<node>>, stop)
      g     == FirstGoodPath(paths, bad_stop_nodes)
  IN  [stop |-> IF g > 0 THEN stop \cup Range(paths[g]) ELSE stop,
       leak |-> g = 0]

\* Mutant: the locator expression leaves the prefix out.
LeakNode_NoPrefix(c, edge) ==
  [node |-> edge.to_node,
   description |-> "Leak",
   how_to_find_node |-> container_name[c] \o "[" \o edge.name_string \o "]"]

\* LeakNode.__init__ as FindLeaks calls it.
LeakNode(c, edge) ==
  [node |-> edge.to_node,
   description |-> "Leak",
   how_to_find_node |-> stacktrace_prefix \o container_name[c]
                          \o "[" \o edge.name_string \o "]"]

-----------------------------------------------------------------------------
(* Actions of Spec *)

\* LeakFinder.__init__ and the call of FindLeaks, for one of the inputs.
LeakInitFrom(inputs) ==
  \E in \in inputs :
    /\ nodes = 1..in.g.n
    /\ class_name = in.g.cls
    /\ edges_to = [n \in 1..in.g.n |-> EdgesTo(in.g, n)]
    /\ edges_from = [n \in 1..in.g.n |-> EdgesFrom(in.g, n)]
    /\ container_description = in.cfg.containers
    /\ bad_stop_node_description = in.cfg.bad
    /\ stacktrace_prefix = in.cfg.prefix
    /\ pc = "ready"
    /\ stop_nodes = {}
    /\ bad_stop_nodes = {}
    /\ containers = {}
    /\ found_container_edges = {}
    /\ container_name = <<>>
    /\ pending = {}
    /\ container = 0
    /\ edge_pos = 0
    /\ leaks = <<>>
    /\ error = ""
    /\ search = <<>>
    /\ log = <<>>

LeakInit == LeakInitFrom(LeakInputs)

\* What FindLeaks and the retaining-path search never assign.
fixedVars == <<nodes, class_name, edges_to, edges_from, container_description,
               bad_stop_node_description, stacktrace_prefix, snapVars, suppVars,
               readVars, filterVars>>

\* A direct call _FindRetainingPaths(node, [node], stop), as the unit tests make.
SearchCall ==
  /\ pc = "ready"
  /\ \E node \in nodes, stop \in {{}, {n \in nodes : IsWindow(n)}} :
       search' = [node |-> node, stop |-> stop,
                  paths |-> FindRetainingPaths(node, <<node>>, stop)]
  /\ pc' = "searched"
  /\ UNCHANGED <<fixedVars, stop_nodes, bad_stop_nodes, containers,
                 found_container_edges, container_name, pending, container,
                 edge_pos, leaks, error, log>>

\* FindLeaks up to the check that all containers were found.
Classify ==
  /\ pc = "ready"
  /\ stop_nodes' = StopNodesOf
  /\ bad_stop_nodes' = BadStopNodesOf
  /\ containers' = ContainersOf
  /\ container_name' = [n \in ContainersOf |-> ContainerNameOf(n)]
  /\ found_container_edges' = {ContainerNameOf(n) : n \in ContainersOf}
  /\ LET missing == MissingContainers(found_container_edges')
     IN  IF missing = {}
         THEN /\ pc' = "running"
              /\ pending' = ContainersOf
              /\ error' = ""
         ELSE /\ pc' = "error"
              /\ pending' = {}
              /\ error' = "Container not found: " \o
                   Join(container_description[CHOOSE i \in missing :
                                                \A j \in missing : i <= j])
  /\ UNCHANGED <<fixedVars, container, edge_pos, leaks, search, log>>

\* The outer loop takes the next container; a set is iterated in no fixed order.
NextContainer ==
  /\ pc = "running"
  /\ container = 0
  /\ \E c \in pending :
       /\ container' = c
       /\ pending' = pending \ {c}
  /\ edge_pos' = 1
  /\ UNCHANGED <<fixedVars, pc, stop_nodes, bad_stop_nodes, containers,
                 found_container_edges, container_name, leaks, error, search, log>>

\* The inner loop skips an edge that is not an element.
SkipEdge ==
  /\ pc = "running"
  /\ container # 0
  /\ edge_pos <= Len(edges_from[container])
  /\ edges_from[container][edge_pos].type_string # "element"
  /\ edge_pos' = edge_pos + 1
  /\ UNCHANGED <<fixedVars, pc, stop_nodes, bad_stop_nodes, containers,
                 found_container_edges, container_name, pending, container,
                 leaks, error, search, log>>

\* The inner loop examines an element of the container.
ExamineElement ==
  /\ pc = "running"
  /\ container # 0
  /\ edge_pos <= Len(edges_from[container])
  /\ LET edge == edges_from[container][edge_pos]
         r    == ExamineResult(edge.to_node, stop_nodes)
     IN  /\ edge.type_string = "element"
         /\ stop_nodes' = r.stop
         /\ leaks' = IF r.leak THEN Append(leaks, LeakNode(container, edge)) ELSE leaks
         /\ log' = Append(log, [edge |-> edge, container |-> container,
                                stop |-> stop_nodes, leak |-> r.leak])
  /\ edge_pos' = edge_pos + 1
  /\ UNCHANGED <<fixedVars, pc, bad_stop_nodes, containers, found_container_edges,
                 container_name, pending, container, error, search>>

\* Mutant: the inner loop starts over when it reaches the end of the list.
EndContainer_StartOver ==
  /\ pc = "running"
  /\ container # 0
  /\ edge_pos > Len(edges_from[container])
  /\ edge_pos' = 1
  /\ UNCHANGED <<fixedVars, pc, stop_nodes, bad_stop_nodes, containers,
                 found_container_edges, container_name, pending, container, leaks,
                 error, search, log>>

\* The inner loop ends.
EndContainer ==
  /\ pc = "running"
  /\ container # 0
  /\ edge_pos > Len(edges_from[container])
  /\ container' = 0
  /\ edge_pos' = 0
  /\ UNCHANGED <<fixedVars, pc, stop_nodes, bad_stop_nodes, containers,
                 found_container_edges, container_name, pending, leaks, error,
                 search, log>>

\* The outer loop ends and the generator is exhausted.
Finish ==
  /\ pc = "running"
  /\ container = 0
  /\ pending = {}
  /\ pc' = "done"
  /\ UNCHANGED <<fixedVars, stop_nodes, bad_stop_nodes, containers,
                 found_container_edges, container_name, pending, container,
                 edge_pos, leaks, error, search, log>>

\* No LeakFinder exists.
LeakIdle ==
  /\ nodes = {}
  /\ class_name = <<>>
  /\ edges_to = <<>>
  /\ edges_from = <<>>
  /\ container_description = <<>>
  /\ bad_stop_node_description = <<>>
  /\ stacktrace_prefix = ""
  /\ pc = "idle"
  /\ stop_nodes = {}
  /\ bad_stop_nodes = {}
  /\ containers = {}
  /\ found_container_edges = {}
  /\ container_name = <<>>
  /\ pending = {}
  /\ container = 0
  /\ edge_pos = 0
  /\ leaks = <<>>
  /\ error = ""
  /\ search = <<>>
  /\ log = <<>>

-----------------------------------------------------------------------------
(* Heap snapshots: the data and its two encodings *)

MaxRecords   == 2    \* node records of a snapshot
MaxSnapEdges == 2    \* edge records of a snapshot

NodeTypes == <<"object", "hidden", "string">>
EdgeTypes == <<"property", "element", "weak">>
Strings   == <<"A", "B", "name">>
EdgeFields == <<"type", "name_or_index", "to_node">>
NodeFieldsOld == <<"type", "name", "id", "edges_index">>
NodeFieldsNew == <<"type", "name", "id", "edge_count">>

\* The possible edges between n records: owner and target are record numbers,
\* type indexes EdgeTypes; the label index depends on the endpoints and falls
\* outside Strings for some of them.
SnapEdgePool(n) ==
  { [owner |-> o, to |-> t, type |-> ty, name_or_index |-> 2 * (t - 1) + (o - 1)] :
      o \in 1..n, t \in 1..n, ty \in 0..(Len(EdgeTypes) - 1) }

\* The subsets of S of at most k elements.
RECURSIVE SubsetsUpTo(_, _)
SubsetsUpTo(S, k) ==
  IF k = 0 THEN {{}}
  ELSE LET smaller == SubsetsUpTo(S, k - 1)
       IN  smaller \cup {T \cup {x} : T \in smaller, x \in S}

EdgeKey(e) == (e.owner * 100 + e.to * 10) + e.type

RECURSIVE SeqByKey(_)
SeqByKey(S) ==
  IF S = {} THEN <<>>
  ELSE LET m == CHOOSE x \in S : \A y \in S : EdgeKey(x) <= EdgeKey(y)
       IN  <<m>> \o SeqByKey(S \ {m})

\* Snapshot data: node records (type index, name index, id), each with its
\* edge records in order, of at most maxEdges edge records in all.
SnapDataUpTo(n, maxEdges) ==
  { [types |-> ty, ids |-> ids,
     edges |-> [k \in 1..n |-> SeqByKey({e \in es : e.owner = k})]] :
      ty  \in {f \in [1..n -> 0..2] : \A k \in 2..n : f[k] <= 1},
      ids \in {[k \in 1..n |-> 2 * k + 1], [k \in 1..n |-> 3]},
      es  \in SubsetsUpTo(SnapEdgePool(n), maxEdges) }

SnapData(n) == SnapDataUpTo(n, MaxSnapEdges)

NumRecords(data) == Len(data.types)

RECURSIVE EdgeCountBefore(_, _)
EdgeCountBefore(data, k) ==
  IF k <= 1 THEN 0 ELSE EdgeCountBefore(data, k - 1) + Len(data.edges[k - 1])

RECURSIVE Flatten(_)
Flatten(ss) == IF ss = <<>> THEN <<>> ELSE Head(ss) \o Flatten(Tail(ss))

\* The flat edge array: type, name_or_index, to_node (the offset of the target
\* record in the node array).
EncodeEdges(data, nfc) ==
  Flatten([k \in 1..NumRecords(data) |->
    Flatten([j \in 1..Len(data.edges[k]) |->
      LET e == data.edges[k][j]
      IN  <<e.type, e.name_or_index, (e.to - 1) * nfc>>])])

\* The flat node array; the last field of a record is the offset of its first
\* edge in the edge array (edges_index) or the number of its edges (edge_count).
EncodeNodes(data, counted) ==
  Flatten([k \in 1..NumRecords(data) |->
    <<data.types[k], (k - 1) % Len(Strings), data.ids[k],
      IF counted THEN Len(data.edges[k])
      ELSE Len(EdgeFields) * EdgeCountBefore(data, k)>>])

\* What the inspector client hands out, after simplejson.loads.
Heap(data, counted) ==
  [snapshot |-> [meta |-> [node_types  |-> <<NodeTypes>>,
                           edge_types  |-> <<EdgeTypes>>,
                           node_fields |-> IF counted THEN NodeFieldsNew ELSE NodeFieldsOld,
                           edge_fields |-> EdgeFields]],
   nodes   |-> EncodeNodes(data, counted),
   edges   |-> EncodeEdges(data, Len(NodeFieldsOld)),
   strings |-> Strings]

-----------------------------------------------------------------------------
(* Malformed snapshots: metadata without a field or with both layout fields,
   and arrays that end early *)

MaxMetaEdges == 1    \* edge records of a snapshot with damaged metadata
MaxCut       == 2    \* integers missing from the end of an array

Without(seq, names) == SelectSeq(seq, LAMBDA x : x \notin names)

DropLast(seq, n) == SubSeq(seq, 1, IF n >= Len(seq) THEN 0 ELSE Len(seq) - n)

LayoutFields == {"edges_index", "edge_count"}

\* What is wrong with a payload: the names its node and edge field lists
\* lack, whether the node field list names both layouts, whether the
\* edge_count column is then out of date (all zero), and how many integers the
\* node and edge arrays lack at their ends.
Fault(nodes_lack, edges_lack, both, stale, cut_nodes, cut_edges) ==
  [nodes_lack |-> nodes_lack, edges_lack |-> edges_lack, both |-> both, stale |-> stale,
   cut_nodes |-> cut_nodes, cut_edges |-> cut_edges]

MetaFaults ==
  { Fault(nl, el, FALSE, FALSE, 0, 0) :
      nl \in {{}, {"type"}, {"name"}, {"id"}, LayoutFields},
      el \in {{}, {"type"}, {"name_or_index"}, {"to_node"}} }
  \cup { Fault({}, {}, TRUE, st, 0, 0) : st \in BOOLEAN }

CutFaults ==
  { Fault({}, {}, FALSE, FALSE, cn, ce) : cn \in 0..MaxCut, ce \in 0..MaxCut }

\* The node field list of the payload.
NodeFieldsOf(counted, fault) ==
  Without(IF fault.both
          THEN IF counted THEN <<"type", "name", "id", "edge_count", "edges_index">>
               ELSE <<"type", "name", "id", "edges_index", "edge_count">>
          ELSE IF counted THEN NodeFieldsNew ELSE NodeFieldsOld,
          fault.nodes_lack)

EdgeFieldsOf(fault) == Without(EdgeFields, fault.edges_lack)

\* The integer a node record holds for a field.
NodeFieldValue(data, k, name, efc, stale) ==
  CASE name = "type" -> data.types[k]
    [] name = "name" -> (k - 1) % Len(Strings)
    [] name = "id" -> data.ids[k]
    [] name = "edges_index" -> efc * EdgeCountBefore(data, k)
    [] name = "edge_count" -> IF stale THEN 0 ELSE Len(data.edges[k])

\* The integer an edge record holds for a field.
EdgeFieldValue(e, name, nfc) ==
  CASE name = "type" -> e.type
    [] name = "name_or_index" -> e.name_or_index
    [] name = "to_node" -> (e.to - 1) * nfc

\* The payload of the client with its fault.
DamagedHeap(data, counted, fault) ==
  LET nf == NodeFieldsOf(counted, fault)
      ef == EdgeFieldsOf(fault)
      node_ints ==
        Flatten([k \in 1..NumRecords(data) |->
          [j \in 1..Len(nf) |-> NodeFieldValue(data, k, nf[j], Len(ef), fault.stale)]])
      edge_ints ==
        Flatten([k \in 1..NumRecords(data) |->
          Flatten([m \in 1..Len(data.edges[k]) |->
            [j \in 1..Len(ef) |-> EdgeFieldValue(data.edges[k][m], ef[j], Len(nf))]])])
  IN  [snapshot |-> [meta |-> [node_types  |-> <<NodeTypes>>,
                               edge_types  |-> <<EdgeTypes>>,
                               node_fields |-> nf,
                               edge_fields |-> ef]],
       nodes   |-> DropLast(node_ints, fault.cut_nodes),
       edges   |-> DropLast(edge_ints, fault.cut_edges),
       strings |-> Strings]

MaxShift == 4    \* integers by which the target offsets of the edges are off

\* The payload with the target offset (the third integer) of every edge record
\* raised by shift.
ShiftedHeap(data, counted, shift) ==
  LET heap == Heap(data, counted)
  IN  [heap EXCEPT !.edges =
         [i \in 1..Len(heap.edges) |->
            IF i % Len(EdgeFields) = 0 THEN heap.edges[i] + shift ELSE heap.edges[i]]]

\* Tables of node kinds and of edge kinds a snapshot may declare; the type
\* field of a record indexes the table.
KindTables ==
  { [node_types |-> NodeTypes, edge_types |-> EdgeTypes],
    [node_types |-> <<"code", "object", "number">>,
     edge_types |-> <<"hidden", "property", "internal">>],
    [node_types |-> <<"native", "closure", "synthetic">>,
     edge_types |-> <<"internal", "shortcut", "property">>] }

\* The payload with its own tables of kinds.
KindsHeap(data, counted, node_types, edge_types) ==
  LET heap == Heap(data, counted)
  IN  [heap EXCEPT !.snapshot.meta.node_types = <<node_types>>,
                   !.snapshot.meta.edge_types = <<edge_types>>]

\* inspector_client.HeapSnapshot(...)['raw_data'], after simplejson.loads.
HeapOf(c) ==
  IF "fault" \in DOMAIN c THEN DamagedHeap(c.data, c.counted, c.fault)
  ELSE IF "shift" \in DOMAIN c THEN ShiftedHeap(c.data, c.counted, c.shift)
  ELSE IF "node_types" \in DOMAIN c
    THEN KindsHeap(c.data, c.counted, c.node_types, c.edge_types)
  ELSE Heap(c.data, c.counted)

-----------------------------------------------------------------------------
(* Snapshotter *)

\* list[i] of Python: positions count from 0.
Get(list, i) == list[i + 1]

InRange(list, i) == 0 <= i /\ i < Len(list)

Has(field_name, fields_array) == \E k \in 1..Len(fields_array) : fields_array[k] = field_name

\* fields_array.index(field_name)
IndexOf(field_name, fields_array) ==
  (CHOOSE k \in 1..Len(fields_array) :
     /\ fields_array[k] = field_name
     /\ \A j \in 1..(k - 1) : fields_array[j] # field_name) - 1

NoError == [raised |-> "", msg |-> ""]

Raise(kind, msg) == [raised |-> kind, msg |-> msg]

\* Snapshotter.__init__; allocated counts the objects created so far, nodeObj
\* and edgeObj hold the Node and Edge objects by identity.
NewSnapshotter ==
  [node_dict |-> <<>>,
   node_list |-> <<>>, edge_list |-> <<>>, strings |-> <<>>,
   node_types |-> <<>>, edge_types |-> <<>>,
   node_type_ix |-> -1, node_name_ix |-> -1, node_id_ix |-> -1,
   node_edges_start_ix |-> -1, node_edge_count_ix |-> -1,
   node_edge_count_format |-> FALSE, node_field_count |-> -1,
   edge_type_ix |-> -1, edge_name_or_ix_ix |-> -1, edge_to_node_ix |-> -1,
   edge_field_count |-> -1,
   allocated |-> 0, nodeObj |-> <<>>, edgeObj |-> <<>>]

\* Mutant: the name is looked up with list.index alone.
FieldMissing_ValueError(field_name) ==
  Raise("ValueError", field_name \o " is not in list")

\* The Error of _FindField.
FieldMissing(field_name) ==
  Raise("Error", "Cannot find field " \o field_name \o " from the snapshot")

\* _ReadSnapshot: the attributes after it, and the Error it raises if a field
\* is missing.
ReadSnapshot(self, heap) ==
  LET nf == heap.snapshot.meta.node_fields
      ef == heap.snapshot.meta.edge_fields
      s0 == [self EXCEPT !.node_list = heap.nodes,
                         !.edge_list = heap.edges,
                         !.strings = heap.strings,
                         !.node_types = heap.snapshot.meta.node_types[1],
                         !.edge_types = heap.snapshot.meta.edge_types[1]]
      s1 == [s0 EXCEPT !.node_type_ix = IndexOf("type", nf)]
      s2 == [s1 EXCEPT !.node_name_ix = IndexOf("name", nf)]
      s3 == [s2 EXCEPT !.node_id_ix = IndexOf("id", nf)]
      s4 == IF Has("edges_index", nf)
            THEN [s3 EXCEPT !.node_edges_start_ix = IndexOf("edges_index", nf),
                            !.node_edge_count_format = FALSE]
            ELSE [s3 EXCEPT !.node_edge_count_ix = IndexOf("edge_count", nf),
                            !.node_edge_count_format = TRUE]
      s5 == [s4 EXCEPT !.node_field_count = Len(nf)]
      s6 == [s5 EXCEPT !.edge_type_ix = IndexOf("type", ef)]
      s7 == [s6 EXCEPT !.edge_name_or_ix_ix = IndexOf("name_or_index", ef)]
      s8 == [s7 EXCEPT !.edge_to_node_ix = IndexOf("to_node", ef)]
  IN  IF ~Has("type", nf) THEN [err |-> FieldMissing("type"), self |-> s0]
      ELSE IF ~Has("name", nf) THEN [err |-> FieldMissing("name"), self |-> s1]
      ELSE IF ~Has("id", nf) THEN [err |-> FieldMissing("id"), self |-> s2]
      ELSE IF ~Has("edges_index", nf) /\ ~Has("edge_count", nf)
           THEN [err |-> FieldMissing("edge_count"), self |-> s3]
      ELSE IF ~Has("type", ef) THEN [err |-> FieldMissing("type"), self |-> s5]
      ELSE IF ~Has("name_or_index", ef)
           THEN [err |-> FieldMissing("name_or_index"), self |-> s6]
      ELSE IF ~Has("to_node", ef) THEN [err |-> FieldMissing("to_node"), self |-> s7]
      ELSE [err |-> NoError, self |-> [s8 EXCEPT !.edge_field_count = Len(ef)]]

ConstructorName(self, type_string, node_name_ix) ==
  IF type_string = "object" THEN Get(self.strings, node_name_ix)
  ELSE "(" \o type_string \o ")"

IsNodeTypeUninteresting(type_string) ==
  type_string \in {"hidden", "code", "number", "native", "synthetic"}

\* Mutant: weak edges are kept.
IsEdgeTypeUninteresting_WeakKept(edge_type_string) ==
  edge_type_string \in {"hidden", "internal"}

IsEdgeTypeUninteresting(edge_type_string) ==
  edge_type_string \in {"weak", "hidden", "internal"}

\* Edge.__init__; from_node and to_node hold no Node yet (0).
Edge(from_node_id, to_node_id, type_string, name_string) ==
  [from_node_id |-> from_node_id, to_node_id |-> to_node_id,
   from_node |-> 0, to_node |-> 0,
   type_string |-> type_string, name_string |-> name_string]

\* Node.__init__
Node(node_id, type_string, class_name_) ==
  [node_id |-> node_id, type_string |-> type_string, class_name |-> class_name_,
   edges_to |-> <<>>, edges_from |-> <<>>, string |-> ""]

\* _ReadEdgeFromIndex: the exception raised, if any, and the Edge (kept is
\* FALSE when the method returns None).
ReadEdgeFromIndex(self, node_id, edge_ix) ==
  IF edge_ix + self.edge_field_count > Len(self.edge_list)
  THEN [err |-> Raise("Error", "Snapshot edge list too short"), kept |-> FALSE]
  ELSE
    LET edge_type_ix     == Get(self.edge_list, edge_ix + self.edge_type_ix)
        edge_type_string == Get(self.edge_types, edge_type_ix)
        child_name_or_ix == Get(self.edge_list, edge_ix + self.edge_name_or_ix_ix)
        child_node_ix    == Get(self.edge_list, edge_ix + self.edge_to_node_ix)
        child_node_type_ix == Get(self.node_list, child_node_ix + self.node_type_ix)
        child_node_type_string == Get(self.node_types, child_node_type_ix)
        child_node_id    == Get(self.node_list, child_node_ix + self.node_id_ix)
        child_name_string ==
          IF edge_type_string = "element" \/ child_name_or_ix >= Len(self.strings)
          THEN ToString(child_name_or_ix)
          ELSE Get(self.strings, child_name_or_ix)
    IN  IF ~InRange(self.edge_types, edge_type_ix)
        THEN [err |-> Raise("IndexError", "list index out of range"), kept |-> FALSE]
        ELSE IF IsEdgeTypeUninteresting(edge_type_string)
        THEN [err |-> NoError, kept |-> FALSE]
        ELSE IF \/ ~InRange(self.node_list, child_node_ix + self.node_type_ix)
                \/ ~InRange(self.node_list, child_node_ix + self.node_id_ix)
                \/ ~InRange(self.node_types, child_node_type_ix)
        THEN [err |-> Raise("IndexError", "list index out of range"), kept |-> FALSE]
        ELSE IF IsNodeTypeUninteresting(child_node_type_string)
        THEN [err |-> NoError, kept |-> FALSE]
        ELSE [err |-> NoError, kept |-> TRUE,
              edge |-> Edge(node_id, child_node_id, edge_type_string, child_name_string)]

\* The loop of _ReadNodeFromIndex over the edge records of node object n, from
\* edge_ix on: the Edge objects are created and appended to n.edges_from.
RECURSIVE ReadEdges(_, _, _, _, _)
ReadEdges(self, n, node_id, edge_ix, edges_end) ==
  IF edge_ix >= edges_end THEN [err |-> NoError, self |-> self]
  ELSE LET r == ReadEdgeFromIndex(self, node_id, edge_ix)
           e == self.allocated + 1
       IN  IF r.err.raised # "" THEN [err |-> r.err, self |-> self]
           ELSE IF ~r.kept
           THEN ReadEdges(self, n, node_id, edge_ix + self.edge_field_count, edges_end)
           ELSE ReadEdges(
                  [self EXCEPT !.allocated = e,
                               !.edgeObj = (e :> r.edge) @@ self.edgeObj,
                               !.nodeObj = [self.nodeObj EXCEPT ![n].edges_from = Append(@, e)]],
                  n, node_id, edge_ix + self.edge_field_count, edges_end)

\* Mutant: a filtered record does not move the edge cursor.
EdgesEndOfFiltered_NoAdvance(edges_start, edges_end) == edges_start

\* What _ReadNodeFromIndex returns for a record of an uninteresting type.
EdgesEndOfFiltered(edges_start, edges_end) == edges_end

\* _ReadNodeFromIndex: the exception raised, if any, the Snapshotter afterwards
\* and the value returned.
ReadNodeFromIndex(self, ix_, edges_start_) ==
  IF ix_ + self.node_field_count > Len(self.node_list)
  THEN [err |-> Raise("Error", "Snapshot node list too short"), self |-> self,
        edges_end |-> edges_start_]
  ELSE
    LET type_ix     == Get(self.node_list, ix_ + self.node_type_ix)
        type_string == Get(self.node_types, type_ix)
        next_edges_start == ix_ + self.node_edges_start_ix + self.node_field_count
        edges_start == IF self.node_edge_count_format THEN edges_start_
                       ELSE Get(self.node_list, ix_ + self.node_edges_start_ix)
        edges_end ==
          IF self.node_edge_count_format
          THEN edges_start_
                 + Get(self.node_list, ix_ + self.node_edge_count_ix) * self.edge_field_count
          ELSE IF next_edges_start < Len(self.node_list)
               THEN Get(self.node_list, next_edges_start)
               ELSE Len(self.edge_list)
        name_ix   == Get(self.node_list, ix_ + self.node_name_ix)
        node_id   == Get(self.node_list, ix_ + self.node_id_ix)
        ctor_name == ConstructorName(self, type_string, name_ix)
        n         == self.allocated + 1
        created   == [Node(node_id, type_string, ctor_name) EXCEPT
                        !.string = IF type_string = "string"
                                   THEN Get(self.strings, name_ix) ELSE ""]
        s1        == [self EXCEPT !.allocated = n,
                                  !.nodeObj = (n :> created) @@ self.nodeObj]
        r         == ReadEdges(s1, n, node_id, edges_start, edges_end)
    IN  IF ~InRange(self.node_types, type_ix)
        THEN [err |-> Raise("IndexError", "list index out of range"), self |-> self,
              edges_end |-> edges_start_]
        ELSE IF IsNodeTypeUninteresting(type_string)
        THEN [err |-> NoError, self |-> self,
              edges_end |-> EdgesEndOfFiltered(edges_start, edges_end)]
        ELSE IF ~InRange(self.strings, name_ix)
        THEN [err |-> Raise("IndexError", "list index out of range"), self |-> self,
              edges_end |-> edges_start_]
        ELSE IF r.err.raised # ""
        THEN [err |-> r.err, self |-> r.self, edges_end |-> edges_start_]
        ELSE [err |-> NoError,
              self |-> [r.self EXCEPT !.node_dict = (node_id :> n) @@ r.self.node_dict],
              edges_end |-> edges_end]

\* The keys of _node_dict in the order the dict is iterated in: for the small
\* non-negative integers used as ids here, CPython's order is ascending.
RECURSIVE Ascending(_)
Ascending(S) ==
  IF S = {} THEN <<>>
  ELSE LET m == CHOOSE x \in S : \A y \in S : x <= y
       IN  <<m>> \o Ascending(S \ {m})

\* Mutant: the edge is resolved against its own start node.
LinkTargetId_FromNode(e) == e.from_node_id

\* The key the second loop looks up for the "to" end of an edge.
LinkTargetId(e) == e.to_node_id

\* The second loop of _ParseSnapshot, from the k-th key and the j-th edge of
\* its node on.
RECURSIVE LinkEdges(_, _, _, _)
LinkEdges(self, keys, k, j) ==
  IF k > Len(keys) THEN [err |-> NoError, self |-> self]
  ELSE LET n == self.node_dict[keys[k]]
       IN  IF j > Len(self.nodeObj[n].edges_from) THEN LinkEdges(self, keys, k + 1, 1)
           ELSE LET e  == self.nodeObj[n].edges_from[j]
                    to == LinkTargetId(self.edgeObj[e])
                IN  IF to \notin DOMAIN self.node_dict
                    THEN [err |-> Raise("KeyError", ToString(to)), self |-> self]
                    ELSE LinkEdges(
                           [self EXCEPT
                              !.nodeObj = [self.nodeObj EXCEPT
                                             ![self.node_dict[to]].edges_to = Append(@, e)],
                              !.edgeObj = [self.edgeObj EXCEPT
                                             ![e].from_node = n,
                                             ![e].to_node = self.node_dict[to]]],
                           keys, k, j + 1)

\* The first loop of _ParseSnapshot, from record index ix_ on.
RECURSIVE ReadNodes(_, _, _)
ReadNodes(self, ix_, edges_start_) ==
  IF ix_ >= Len(self.node_list) THEN [err |-> NoError, self |-> self]
  ELSE LET r == ReadNodeFromIndex(self, ix_, edges_start_)
       IN  IF r.err.raised # "" THEN [err |-> r.err, self |-> r.self]
           ELSE ReadNodes(r.self, ix_ + self.node_field_count, r.edges_end)

\* GetSnapshot as a whole.
GetSnapshot(self, heap) ==
  LET a == ReadSnapshot(self, heap)
      b == ReadNodes(a.self, 0, 0)
      c == LinkEdges(b.self, Ascending(DOMAIN b.self.node_dict), 1, 1)
  IN  IF a.err.raised # "" THEN a
      ELSE IF b.err.raised # "" THEN b
      ELSE c

-----------------------------------------------------------------------------
(* Actions of SpecSnap *)

SnapInit ==
  /\ \E n \in 1..MaxRecords :
       \E data \in SnapData(n), counted \in BOOLEAN :
         client = [data |-> data, counted |-> counted]
  /\ snapshotter = NewSnapshotter
  /\ spc = "new"
  /\ ix = 0
  /\ edge_start_ix = 0
  /\ snap_error = NoError

\* A fresh Snapshotter and a client whose payload has damaged metadata.
MetaInit ==
  /\ \E n \in 1..MaxRecords :
       \E data \in SnapDataUpTo(n, MaxMetaEdges), counted \in BOOLEAN, fault \in MetaFaults :
         client = [data |-> data, counted |-> counted, fault |-> fault]
  /\ snapshotter = NewSnapshotter
  /\ spc = "new"
  /\ ix = 0
  /\ edge_start_ix = 0
  /\ snap_error = NoError

\* A fresh Snapshotter and a client whose payload has arrays that end early.
CutInit ==
  /\ \E n \in 1..MaxRecords :
       \E data \in SnapData(n), counted \in BOOLEAN, fault \in CutFaults :
         client = [data |-> data, counted |-> counted, fault |-> fault]
  /\ snapshotter = NewSnapshotter
  /\ spc = "new"
  /\ ix = 0
  /\ edge_start_ix = 0
  /\ snap_error = NoError

\* A fresh Snapshotter and a client whose payload has edges with wrong target
\* offsets.
ShiftInit ==
  /\ \E n \in 1..MaxRecords :
       \E data \in SnapData(n), counted \in BOOLEAN, shift \in 1..MaxShift :
         client = [data |-> data, counted |-> counted, shift |-> shift]
  /\ snapshotter = NewSnapshotter
  /\ spc = "new"
  /\ ix = 0
  /\ edge_start_ix = 0
  /\ snap_error = NoError

\* A fresh Snapshotter and a client whose payload has unique node ids and
\* declares one of the tables of kinds.
KindsInit ==
  /\ \E n \in 1..MaxRecords :
       \E data \in SnapData(n), counted \in BOOLEAN, tables \in KindTables :
         /\ \A k, m \in 1..n : data.ids[k] = data.ids[m] => k = m
         /\ client = [data |-> data, counted |-> counted,
                      node_types |-> tables.node_types,
                      edge_types |-> tables.edge_types]
  /\ snapshotter = NewSnapshotter
  /\ spc = "new"
  /\ ix = 0
  /\ edge_start_ix = 0
  /\ snap_error = NoError

MaxAgainEdges == 1    \* edge records of each of the snapshots of one Snapshotter

\* A fresh Snapshotter and a client that hands out one payload now and another
\* one at the next call.
AgainInit ==
  /\ \E n \in 1..MaxRecords, m \in 1..MaxRecords :
       \E first \in SnapDataUpTo(n, MaxAgainEdges), second \in SnapDataUpTo(m, MaxAgainEdges),
          counted \in BOOLEAN :
         client = [data |-> first, counted |-> counted,
                   later |-> <<[data |-> second, counted |-> counted]>>]
  /\ snapshotter = NewSnapshotter
  /\ spc = "new"
  /\ ix = 0
  /\ edge_start_ix = 0
  /\ snap_error = NoError

\* The caller calls GetSnapshot of the same Snapshotter once more, after the
\* previous call has returned; the client hands out its next payload.
CallAgain ==
  /\ spc = "returned"
  /\ "later" \in DOMAIN client
  /\ client.later # <<>>
  /\ client' = [data |-> Head(client.later).data,
                counted |-> Head(client.later).counted,
                later |-> Tail(client.later)]
  /\ spc' = "new"
  /\ ix' = 0
  /\ edge_start_ix' = 0
  /\ snap_error' = NoError
  /\ UNCHANGED <<snapshotter, leakVars, suppVars, readVars, filterVars>>

\* No Snapshotter exists.
SnapIdle ==
  /\ client = <<>>
  /\ snapshotter = <<>>
  /\ spc = "idle"
  /\ ix = 0
  /\ edge_start_ix = 0
  /\ snap_error = NoError

\* GetSnapshot calls _ReadSnapshot.
DoReadSnapshot ==
  /\ spc = "new"
  /\ LET r == ReadSnapshot(snapshotter, HeapOf(client))
     IN  /\ snapshotter' = r.self
         /\ snap_error' = r.err
         /\ spc' = IF r.err.raised = "" THEN "parsing" ELSE "failed"
  /\ ix' = 0
  /\ edge_start_ix' = 0
  /\ UNCHANGED <<client, leakVars, suppVars, readVars, filterVars>>

\* One round of the first loop of _ParseSnapshot.
DoReadNode ==
  /\ spc = "parsing"
  /\ ix < Len(snapshotter.node_list)
  /\ LET r == ReadNodeFromIndex(snapshotter, ix, edge_start_ix)
     IN  /\ snapshotter' = r.self
         /\ snap_error' = r.err
         /\ edge_start_ix' = r.edges_end
         /\ spc' = IF r.err.raised = "" THEN "parsing" ELSE "failed"
  /\ ix' = ix + snapshotter.node_field_count
  /\ UNCHANGED <<client, leakVars, suppVars, readVars, filterVars>>

\* The second loop of _ParseSnapshot, and the return of GetSnapshot.
DoLinkEdges ==
  /\ spc = "parsing"
  /\ ix >= Len(snapshotter.node_list)
  /\ LET r == LinkEdges(snapshotter, Ascending(DOMAIN snapshotter.node_dict), 1, 1)
     IN  /\ snapshotter' = r.self
         /\ snap_error' = r.err
         /\ spc' = IF r.err.raised = "" THEN "returned" ELSE "failed"
  /\ UNCHANGED <<client, ix, edge_start_ix, leakVars, suppVars, readVars, filterVars>>

-----------------------------------------------------------------------------
(* Suppressions: class names, frames and patterns are sequences of characters *)

MaxPatterns == 3    \* frame patterns of a suppression
MaxFrames   == 4    \* frames of a reported stack

Ellipsis == <<".", ".", ".">>

\* Class names and frames of a report; none holds a line break.
ReportedClassNames == {<<"b", "a">>, Ellipsis}
ReportedFrames == {<<"a">>, <<"b">>, <<"b", "a">>}

ClassPatterns == {<<"a">>, <<"*", "a">>, Ellipsis}
FramePatterns == {<<"a">>, <<"b">>, <<"*", "a">>, <<"*">>, Ellipsis}

SeqsUpTo(S, n) == UNION {[1..k -> S] : k \in 0..n}

\* The pieces of a compiled regular expression.
Lit(c) == [kind |-> "lit", c |-> c]
AnyChars == [kind |-> "any"]       \* .*
Lines == [kind |-> "lines"]        \* (.*\n)*

\* frame.split('*')
RECURSIVE Split(_, _)
Split(frame, sep) ==
  IF \A k \in 1..Len(frame) : frame[k] # sep THEN <<frame>>
  ELSE LET k == CHOOSE i \in 1..Len(frame) :
                  frame[i] = sep /\ \A j \in 1..(i - 1) : frame[j] # sep
       IN  <<SubSeq(frame, 1, k - 1)>> \o Split(SubSeq(frame, k + 1, Len(frame)), sep)

\* re.escape(f): every character stands for itself.
Escape(f) == [k \in 1..Len(f) |-> Lit(f[k])]

\* sep.join(parts)
RECURSIVE JoinWith(_, _)
JoinWith(sep, parts) ==
  IF parts = <<>> THEN <<>>
  ELSE IF Len(parts) = 1 THEN parts[1]
  ELSE parts[1] \o sep \o JoinWith(sep, Tail(parts))

\* Mutant: an ellipsis stands for exactly one frame.
EllipsisPart_OneFrame == <<AnyChars, Lit("\n")>>

\* The part of the regular expression an ellipsis is converted to.
EllipsisPart == <<Lines>>

\* Mutant: an ellipsis is a wildcard in the first position too.
RECURSIVE ConvertFrames_EllipsisAnywhere(_, _, _)
ConvertFrames_EllipsisAnywhere(frames, i, regex_parts) ==
  IF i > Len(frames) THEN regex_parts
  ELSE IF frames[i] = Ellipsis
  THEN ConvertFrames_EllipsisAnywhere(frames, i + 1, Append(regex_parts, EllipsisPart))
  ELSE LET fs == Split(frames[i], "*")
       IN  ConvertFrames_EllipsisAnywhere(frames, i + 1,
             Append(Append(regex_parts,
                           JoinWith(<<AnyChars>>, [k \in 1..Len(fs) |-> Escape(fs[k])])),
                    <<Lit("\n")>>))

\* The loop of _ConvertStackToRegex over frames, from the i-th on.
RECURSIVE ConvertFrames(_, _, _)
ConvertFrames(frames, i, regex_parts) ==
  IF i > Len(frames) THEN regex_parts
  ELSE IF frames[i] = Ellipsis /\ regex_parts # <<>>
  THEN ConvertFrames(frames, i + 1, Append(regex_parts, EllipsisPart))
  ELSE LET fs == Split(frames[i], "*")
       IN  ConvertFrames(frames, i + 1,
             Append(Append(regex_parts,
                           JoinWith(<<AnyChars>>, [k \in 1..Len(fs) |-> Escape(fs[k])])),
                    <<Lit("\n")>>))

\* _ConvertStackToRegex
ConvertStackToRegex(class_name_, stack) ==
  JoinWith(<<>>, ConvertFrames(<<class_name_>> \o stack, 1, <<>>))

\* regex.match: whether the pieces of re from the i-th on match text from
\* position j on; the match starts where it is told to and may end anywhere.
RECURSIVE MatchAt(_, _, _, _)
MatchAt(re, i, text, j) ==
  IF i > Len(re) THEN TRUE
  ELSE IF re[i].kind = "lit"
  THEN j <= Len(text) /\ text[j] = re[i].c /\ MatchAt(re, i + 1, text, j + 1)
  ELSE IF re[i].kind = "any"
  THEN \E k \in j..(Len(text) + 1) :
         /\ \A m \in j..(k - 1) : text[m] # "\n"
         /\ MatchAt(re, i + 1, text, k)
  ELSE \/ MatchAt(re, i + 1, text, j)
       \/ \E k \in j..Len(text) :
            /\ \A m \in j..(k - 1) : text[m] # "\n"
            /\ text[k] = "\n"
            /\ MatchAt(re, i, text, k + 1)

\* Suppression.__init__
Suppression(description, class_name_, stack) ==
  [description |-> description, class_name |-> class_name_, stack |-> stack,
   regex |-> ConvertStackToRegex(class_name_, stack)]

\* Mutant: the list of frame patterns is not looked at.
IsSet_Always(stack) == TRUE

\* The truth value of self._stack.
IsSet(stack) == stack # <<>>

\* Mutant: the regular expression is searched for, not matched from the start.
Match_Search(self, class_name_, stack) ==
  LET text == JoinWith(<<"\n">>, <<class_name_>> \o stack) \o <<"\n">>
  IN  /\ IsSet(self.stack)
      /\ \E j \in 1..(Len(text) + 1) : MatchAt(self.regex, 1, text, j)

\* Suppression.Match
Match(self, class_name_, stack) ==
  LET frames == <<class_name_>> \o stack
  IN  /\ IsSet(self.stack)
      /\ MatchAt(self.regex, 1, JoinWith(<<"\n">>, frames) \o <<"\n">>, 1)

SuppInit ==
  /\ \E cp \in ClassPatterns, st \in SeqsUpTo(FramePatterns, MaxPatterns) :
       suppression = Suppression(<<>>, cp, st)
  /\ \E cn \in ReportedClassNames, fr \in SeqsUpTo(ReportedFrames, MaxFrames) :
       report = [class_name |-> cn, stack |-> fr]
  /\ result = FALSE
  /\ mpc = "ready"

\* No Suppression exists.
SuppIdle ==
  /\ suppression = <<>>
  /\ report = <<>>
  /\ result = FALSE
  /\ mpc = "idle"

\* A caller tests the report against the suppression.
DoMatch ==
  /\ mpc = "ready"
  /\ result' = Match(suppression, report.class_name, report.stack)
  /\ mpc' = "matched"
  /\ UNCHANGED <<suppression, report, leakVars, snapVars, readVars, filterVars>>

-----------------------------------------------------------------------------
(* Suppression files *)

MaxLines == 5    \* lines of a suppression file

\* The lines a file is made of: blank, comment, block opener, block closer,
\* text, text with blanks around it, a line starting with an ellipsis.
LineTexts ==
  { <<" ">>, <<"#", "c">>, <<"{">>, <<"}">>, <<"a">>, <<" ", "b", " ">>,
    <<".", ".", ".", "x">> }

\* None of Python.
None == <<"None">>

FileName == "f"

\* line.strip()
RECURSIVE Strip(_)
Strip(line) ==
  IF line = <<>> THEN line
  ELSE IF Head(line) = " " THEN Strip(Tail(line))
  ELSE IF line[Len(line)] = " " THEN Strip(SubSeq(line, 1, Len(line) - 1))
  ELSE line

\* line.startswith(prefix)
LineStartsWith(line, prefix) ==
  Len(line) >= Len(prefix) /\ SubSeq(line, 1, Len(prefix)) = prefix

\* The message of ParseError and UnexpectedEofError.
ReadMessage(line_no, what) == FileName \o ": " \o ToString(line_no) \o ": " \o what

\* The locals of ReadSuppressionsFromFile before the loop.
NewReader ==
  [line_no |-> 0, description |-> None, class_name |-> None, stack |-> <<>>,
   in_suppression |-> FALSE, result |-> <<>>]

\* Whether the line takes the branch that appends a Suppression.
ClosesBlock(line, in_suppression) == LineStartsWith(line, <<"}">>)

\* One round of the loop of ReadSuppressionsFromFile, for the line read: the
\* locals afterwards and the exception raised, if any.  Suppression(...) fails
\* in _ConvertStackToRegex when class_name is None (None has no split).
ReadLine(r, raw) ==
  LET n    == r.line_no + 1
      line == Strip(raw)
      r1   == [r EXCEPT !.line_no = n]
  IN  IF line = <<>> \/ LineStartsWith(line, <<"#">>)
      THEN [err |-> NoError, rd |-> r1]
      ELSE IF LineStartsWith(line, <<"{">>)
      THEN [err |-> NoError, rd |-> [r1 EXCEPT !.in_suppression = TRUE]]
      ELSE IF ClosesBlock(line, r.in_suppression)
      THEN IF r.class_name = None
           THEN [err |-> Raise("AttributeError",
                               "'NoneType' object has no attribute 'split'"),
                 rd |-> r1]
           ELSE [err |-> NoError,
                 rd |-> [r1 EXCEPT
                           !.result = Append(@, Suppression(r.description, r.class_name,
                                                            r.stack)),
                           !.description = None,
                           !.class_name = None,
                           !.stack = <<>>,
                           !.in_suppression = FALSE]]
      ELSE IF ~r.in_suppression
      THEN [err |-> Raise("ParseError", ReadMessage(n, "Expected beginning of suppression")),
            rd |-> r1]
      ELSE IF r.description = None
      THEN [err |-> NoError, rd |-> [r1 EXCEPT !.description = line]]
      ELSE IF r.class_name = None
      THEN [err |-> NoError, rd |-> [r1 EXCEPT !.class_name = line]]
      ELSE IF LineStartsWith(line, Ellipsis)
      THEN [err |-> NoError, rd |-> [r1 EXCEPT !.stack = Append(@, Ellipsis)]]
      ELSE [err |-> NoError, rd |-> [r1 EXCEPT !.stack = Append(@, line)]]

ReadInit ==
  /\ \E k \in 0..MaxLines : \E f \in [1..k -> LineTexts] : fp = f
  /\ rd = NewReader
  /\ rpc = "reading"
  /\ read_error = NoError

\* ReadSuppressionsFromFile is not running.
ReadIdle ==
  /\ fp = <<>>
  /\ rd = <<>>
  /\ rpc = "idle"
  /\ read_error = NoError

\* for line in fp: one round.
DoReadLine ==
  /\ rpc = "reading"
  /\ rd.line_no < Len(fp)
  /\ LET r == ReadLine(rd, fp[rd.line_no + 1])
     IN  /\ rd' = r.rd
         /\ read_error' = r.err
         /\ rpc' = IF r.err.raised = "" THEN "reading" ELSE "failed"
  /\ UNCHANGED <<fp, leakVars, snapVars, suppVars, filterVars>>

\* The end of the file: the test of in_suppression and the return.
DoReadEof ==
  /\ rpc = "reading"
  /\ rd.line_no = Len(fp)
  /\ IF rd.in_suppression
     THEN /\ read_error' = Raise("UnexpectedEofError",
                                 ReadMessage(rd.line_no, "Unexpected end-of-file"))
          /\ rpc' = "failed"
     ELSE /\ read_error' = NoError
          /\ rpc' = "returned"
  /\ UNCHANGED <<fp, rd, leakVars, snapVars, suppVars, filterVars>>

-----------------------------------------------------------------------------
(* Result filtering: JSLeakCheck._MatchSuppressions *)

MaxLoaded == 2    \* suppressions loaded from the file
MaxLeaks  == 3    \* leaks handed to _MatchSuppressions

\* The suppressions a file may have given.
LoadedChoices ==
  { Suppression(<<"s">>, <<"a">>, << <<"a">> >>),
    Suppression(<<"s">>, <<"*", "a">>, << Ellipsis, <<"b">> >>),
    Suppression(<<"s">>, <<"b", "a">>, << <<"*">> >>) }

\* LeakNode.stack when no stack trace was retrieved (None).
NoStack == [resolved |-> FALSE, frames |-> <<>>]

\* LeakNode.stack when a stack trace was retrieved.
Stack(frames) == [resolved |-> TRUE, frames |-> frames]

\* The leaks: the class name of the node and its stack.  The frame '*' is
\* what the stack parser gives for a line it cannot read.
LeakChoices ==
  { [class_name |-> cn, stack |-> st] :
      cn \in {<<"a">>, <<"b", "a">>},
      st \in {NoStack, Stack(<< <<"a">> >>), Stack(<< <<"a">>, <<"b">> >>),
              Stack(<< <<"*">> >>)} }

\* The position (from 1) of the first of supps that matches the leak, 0 if
\* none does.
FirstMatching(supps, leak) ==
  LET hits == {i \in 1..Len(supps) : Match(supps[i], leak.class_name, leak.stack.frames)}
  IN  IF hits = {} THEN 0 ELSE CHOOSE i \in hits : \A j \in hits : i <= j

\* Mutant: the first loop does not stop at the first match.
CountedLoaded_All(supps, leak) ==
  {i \in 1..Len(supps) : Match(supps[i], leak.class_name, leak.stack.frames)}

\* The positions of the loaded suppressions whose count the first loop raises.
CountedLoaded(supps, leak) ==
  IF FirstMatching(supps, leak) = 0 THEN {} ELSE {FirstMatching(supps, leak)}

\* matched_suppressions.get(index, 0)
GetCount(dict, index) == IF index \in DOMAIN dict THEN dict[index] ELSE 0

\* Mutant: the count of a known leak is left as it is.
RaiseKnown_Not(known_leak) == known_leak

\* known_leak['count'] += 1
RaiseKnown(known_leak) == [known_leak EXCEPT !.count = @ + 1]

\* The entry appended to new_leaks for a new leak.
NewLeak(leak) ==
  [suppression |-> Suppression(<<>>, leak.class_name, leak.stack.frames),
   count |-> 1, leak |-> leak]

FilterInit ==
  /\ \E k \in 0..MaxLoaded : \E f \in [1..k -> LoadedChoices] : loaded = f
  /\ \E k \in 0..MaxLeaks : \E f \in [1..k -> LeakChoices] : candidates = f
  /\ leak_ix = 0
  /\ matched_suppressions = <<>>
  /\ new_leaks = <<>>
  /\ handled = <<>>
  /\ fpc = "filtering"

\* _MatchSuppressions is not running.
FilterIdle ==
  /\ loaded = <<>>
  /\ candidates = <<>>
  /\ leak_ix = 0
  /\ matched_suppressions = <<>>
  /\ new_leaks = <<>>
  /\ handled = <<>>
  /\ fpc = "idle"

\* for leak in leaks: a leak without a stack is logged and passed over.
DoSkipLeak ==
  /\ fpc = "filtering"
  /\ leak_ix < Len(candidates)
  /\ ~candidates[leak_ix + 1].stack.resolved
  /\ leak_ix' = leak_ix + 1
  /\ handled' = Append(handled, [how |-> "no stack", tested_loaded |-> {},
                                 tested_known |-> {}, at |-> 0])
  /\ UNCHANGED <<loaded, candidates, matched_suppressions, new_leaks, fpc,
                 leakVars, snapVars, suppVars, readVars>>

\* for leak in leaks: one round for a leak with a stack.
DoFilterLeak ==
  /\ fpc = "filtering"
  /\ leak_ix < Len(candidates)
  /\ candidates[leak_ix + 1].stack.resolved
  /\ LET leak  == candidates[leak_ix + 1]
         hits  == CountedLoaded(loaded, leak)
         first == FirstMatching(loaded, leak)
         known == FirstMatching([g \in 1..Len(new_leaks) |-> new_leaks[g].suppression],
                                leak)
     IN  IF hits # {}
         THEN /\ matched_suppressions' =
                   [i \in DOMAIN matched_suppressions \cup {h - 1 : h \in hits} |->
                      IF i + 1 \in hits THEN GetCount(matched_suppressions, i) + 1
                      ELSE matched_suppressions[i]]
              /\ new_leaks' = new_leaks
              /\ handled' = Append(handled, [how |-> "suppressed",
                                             tested_loaded |-> 1..first,
                                             tested_known |-> {}, at |-> first])
         ELSE IF known # 0
         THEN /\ matched_suppressions' = matched_suppressions
              /\ new_leaks' = [new_leaks EXCEPT ![known] = RaiseKnown(@)]
              /\ handled' = Append(handled, [how |-> "known",
                                             tested_loaded |-> 1..Len(loaded),
                                             tested_known |-> 1..known, at |-> known])
         ELSE /\ matched_suppressions' = matched_suppressions
              /\ new_leaks' = Append(new_leaks, NewLeak(leak))
              /\ handled' = Append(handled, [how |-> "new",
                                             tested_loaded |-> 1..Len(loaded),
                                             tested_known |-> 1..Len(new_leaks),
                                             at |-> Len(new_leaks) + 1])
  /\ leak_ix' = leak_ix + 1
  /\ UNCHANGED <<loaded, candidates, fpc, leakVars, snapVars, suppVars, readVars>>

\* The loop is over: the report is printed and new_leaks returned.
DoFilterReturn ==
  /\ fpc = "filtering"
  /\ leak_ix = Len(candidates)
  /\ fpc' = "returned"
  /\ UNCHANGED <<loaded, candidates, leak_ix, matched_suppressions, new_leaks,
                 handled, leakVars, snapVars, suppVars, readVars>>

-----------------------------------------------------------------------------
(* Specifications *)

Init == LeakInit /\ SnapIdle /\ SuppIdle /\ ReadIdle /\ FilterIdle

Next ==
  \/ SearchCall
  \/ Classify
  \/ NextContainer
  \/ SkipEdge
  \/ ExamineElement
  \/ EndContainer
  \/ Finish

Spec == Init /\ [][Next]_vars

\* The caller keeps taking values from the generator, or the unit test makes
\* its call: a step that can be taken is taken.
InitFair == LeakInitFrom(TermInputs) /\ SnapIdle /\ SuppIdle /\ ReadIdle /\ FilterIdle

SpecFair == InitFair /\ [][Next]_vars /\ WF_vars(Next)

InitSnap == SnapInit /\ LeakIdle /\ SuppIdle /\ ReadIdle /\ FilterIdle

NextSnap ==
  \/ DoReadSnapshot
  \/ DoReadNode
  \/ DoLinkEdges

SpecSnap == InitSnap /\ [][NextSnap]_vars

\* GetSnapshot on a payload with damaged metadata.
InitMeta == MetaInit /\ LeakIdle /\ SuppIdle /\ ReadIdle /\ FilterIdle

SpecMeta == InitMeta /\ [][NextSnap]_vars

\* GetSnapshot on a payload whose arrays end early.
InitCut == CutInit /\ LeakIdle /\ SuppIdle /\ ReadIdle /\ FilterIdle

SpecCut == InitCut /\ [][NextSnap]_vars

\* GetSnapshot on a payload whose edges have wrong target offsets.
InitShift == ShiftInit /\ LeakIdle /\ SuppIdle /\ ReadIdle /\ FilterIdle

SpecShift == InitShift /\ [][NextSnap]_vars

\* GetSnapshot on a payload with its own tables of kinds.
InitKinds == KindsInit /\ LeakIdle /\ SuppIdle /\ ReadIdle /\ FilterIdle

SpecKinds == InitKinds /\ [][NextSnap]_vars

\* GetSnapshot called twice on one Snapshotter.
InitAgain == AgainInit /\ LeakIdle /\ SuppIdle /\ ReadIdle /\ FilterIdle

NextAgain ==
  \/ DoReadSnapshot
  \/ DoReadNode
  \/ DoLinkEdges
  \/ CallAgain

SpecAgain == InitAgain /\ [][NextAgain]_vars

InitSupp == SuppInit /\ LeakIdle /\ SnapIdle /\ ReadIdle /\ FilterIdle

NextSupp == DoMatch

SpecSupp == InitSupp /\ [][NextSupp]_vars

InitRead == ReadInit /\ LeakIdle /\ SnapIdle /\ SuppIdle /\ FilterIdle

NextRead ==
  \/ DoReadLine
  \/ DoReadEof

SpecRead == InitRead /\ [][NextRead]_vars

InitFilter == FilterInit /\ LeakIdle /\ SnapIdle /\ SuppIdle /\ ReadIdle

NextFilter ==
  \/ DoSkipLeak
  \/ DoFilterLeak
  \/ DoFilterReturn

SpecFilter == InitFilter /\ [][NextFilter]_vars


-----------------------------------------------------------------------------
(* Properties of FindLeaks and of the retaining-path search (Spec) *)

Retainers(n) == {edges_to[n][i].from_node : i \in 1..Len(edges_to[n])}

\* The nodes reached from the nodes of S by following incoming edges to
\* retainers that are not in avoid.
RECURSIVE BackClosure(_, _)
BackClosure(S, avoid) ==
  LET more == S \cup ((UNION {Retainers(n) : n \in S}) \ avoid)
  IN  IF more = S THEN S ELSE BackClosure(more, avoid)

\* A backward path from t to a Window node or to a node nobody retains that
\* meets no node of avoid, t included.
HasRootedPath(t, avoid) ==
  /\ t \notin avoid
  /\ \E r \in BackClosure({t}, avoid) : IsWindow(r) \/ edges_to[r] = <<>>

Terminal(n, stop) == edges_to[n] = <<>> \/ n \in stop

Extensions(p) == {Append(p, r) : r \in Retainers(Last(p)) \ Range(p)}

\* The paths with one more node than those of open, which visit no node twice
\* and have no terminal node before their last one.
NextPaths(open, stop) ==
  UNION {Extensions(p) : p \in {q \in open : ~Terminal(Last(q), stop)}}

\* open holds paths of k nodes: their extensions to paths of upto nodes.
RECURSIVE OpenPaths(_, _, _, _)
OpenPaths(open, stop, k, upto) ==
  IF k >= upto \/ open = {} THEN open
  ELSE OpenPaths(NextPaths(open, stop), stop, k + 1, upto)

\* open holds paths of k nodes: their extensions of at most MaxDepth nodes that
\* end in a terminal node.
RECURSIVE TerminatedPaths(_, _, _)
TerminatedPaths(open, stop, k) ==
  IF k > MaxDepth \/ open = {} THEN {}
  ELSE {p \in open : Terminal(Last(p), stop)}
         \cup TerminatedPaths(NextPaths(open, stop), stop, k + 1)

\* The paths of at most MaxDepth nodes from start that end in a terminal node.
QualifyingPaths(start, stop) == TerminatedPaths({<<start>>}, stop, 1)

\* Some path from start is cut off by the depth limit.
HasAbandonedPath(start, stop) == OpenPaths({<<start>>}, stop, 1, MaxDepth + 1) # {}

LeakedNodes == {leaks[k].node : k \in 1..Len(leaks)}

Examined == {log[k].edge.eid : k \in 1..Len(log)}

\* The element edges that leave a container.
ElementEdges ==
  {e \in UNION {Range(edges_from[c]) : c \in containers} : e.type_string = "element"}

\* C1: on a graph of at most MaxDepth nodes whose container chains are all
\* found, an element of a container is reported as leaking exactly when no
\* backward path from it reaches a Window node or a node without incoming
\* edges while avoiding every container and bad-retainer node, whatever
\* the earlier elements added to the stop nodes.
C1_LeakIffNoRootedPath ==
  Cardinality(nodes) <= MaxDepth =>
    /\ \A k \in 1..Len(log) :
         log[k].leak <=> ~HasRootedPath(log[k].edge.to_node, bad_stop_nodes)
    /\ pc = "done" =>
         /\ \A e \in ElementEdges : e.eid \in Examined
         /\ \A e \in ElementEdges :
              e.to_node \in LeakedNodes <=> ~HasRootedPath(e.to_node, bad_stop_nodes)

C1_Witness ==
  /\ pc = "done"
  /\ Cardinality(nodes) <= MaxDepth
  /\ \E j, k \in 1..Len(log) :
       /\ log[j].leak
       /\ ~log[k].leak
       /\ log[k].stop # StopNodesOf
       /\ log[k].edge.to_node \notin log[k].stop

\* The element edges in the order of a run that takes the containers by
\* ascending node and the edges of a container by ascending edge id.
RECURSIVE SortedSeq(_)
SortedSeq(S) ==
  IF S = {} THEN <<>>
  ELSE LET m == CHOOSE x \in S : \A y \in S : x <= y
       IN  <<m>> \o SortedSeq(S \ {m})

EdgeWithId(id) == CHOOSE e \in ElementEdges : e.eid = id

AscendingCandidates ==
  LET ofContainer(c) ==
        LET ids == SortedSeq({e.eid : e \in {x \in ElementEdges : x.from_node = c}})
        IN  [i \in 1..Len(ids) |-> EdgeWithId(ids[i])]
      cs == SortedSeq(containers)
      RECURSIVE Concat(_)
      Concat(i) == IF i > Len(cs) THEN <<>> ELSE ofContainer(cs[i]) \o Concat(i + 1)
  IN  Concat(1)

\* The ids of the element edges a run over cands reports as leaking.
RECURSIVE LeaksOfRun(_, _)
LeaksOfRun(cands, stop) ==
  IF cands = <<>> THEN {}
  ELSE LET r == ExamineResult(Head(cands).to_node, stop)
       IN  (IF r.leak THEN {Head(cands).eid} ELSE {}) \cup LeaksOfRun(Tail(cands), r.stop)

\* C2: the elements reported as leaking are the same for every order in which
\* the containers and their element edges are processed: a finished run reports
\* what the run in ascending order reports.
C2_VerdictIndependentOfOrder ==
  pc = "done" =>
    {log[k].edge.eid : k \in {j \in 1..Len(log) : log[j].leak}}
      = LeaksOfRun(AscendingCandidates, StopNodesOf)

\* Some node is retained by the chain of named incoming edges.
ChainMatched(chain) == \E n \in nodes : IsRetainedByEdges(n, chain)

\* C3: FindLeaks fails with 'Container not found' naming the chain exactly when
\* some configured container chain is matched by no node, and then it has
\* emitted no leak candidate.
C3_FailsIffChainUnmatched ==
  pc \in {"running", "done", "error"} =>
    LET unmatched == {i \in 1..Len(container_description) :
                        ~ChainMatched(container_description[i])}
    IN  /\ pc = "error" <=> unmatched # {}
        /\ pc = "error" =>
             /\ leaks = <<>>
             /\ \E i \in unmatched :
                  error = "Container not found: " \o Join(container_description[i])

\* C4: a node without incoming edges is never a bad stop node and never
\* reported as leaking, and the search started at it yields the one path that
\* consists of the node alone.
C4_RootNeverLeaks ==
  \A n \in nodes :
    edges_to[n] = <<>> =>
      /\ n \notin bad_stop_nodes
      /\ n \notin LeakedNodes
      /\ pc \in {"running", "done"} =>
           FindRetainingPaths(n, <<n>>, stop_nodes) = << <<n>> >>
      /\ (pc = "searched" /\ search.node = n) => search.paths = << <<n>> >>

C4_Witness ==
  /\ pc = "done"
  /\ bad_stop_node_description # <<>>
  /\ bad_stop_nodes \ containers # {}
  /\ leaks # <<>>
  /\ \E n \in nodes : edges_to[n] = <<>> /\ Len(edges_from[n]) >= 2

\* C5: when every node that is backward-reachable from the start node has an
\* incoming edge and none of them is a stop node, the search yields no path;
\* an element of a container in that situation is reported as leaking.
C5_ClosedCycleYieldsNoPath ==
  /\ pc = "searched" =>
       ((\A m \in BackClosure({search.node}, {}) :
            edges_to[m] # <<>> /\ m \notin search.stop)
          => search.paths = <<>>)
  /\ \A k \in 1..Len(log) :
       (\A m \in BackClosure({log[k].edge.to_node}, {}) :
           edges_to[m] # <<>> /\ m \notin log[k].stop)
         => log[k].leak

C5_Witness ==
  /\ pc = "searched"
  /\ Cardinality(BackClosure({search.node}, {})) = 3
  /\ \A m \in BackClosure({search.node}, {}) :
       edges_to[m] # <<>> /\ m \notin search.stop
  /\ search.paths = <<>>

-----------------------------------------------------------------------------
(* Properties of SpecSnap *)

\* An edge object as seen from outside: its fields, and the ids of the Node
\* objects it points at.
EdgeView(self, e) ==
  LET o == self.edgeObj[e]
  IN  [from_node_id |-> o.from_node_id, to_node_id |-> o.to_node_id,
       type_string |-> o.type_string, name_string |-> o.name_string,
       from_node |-> IF o.from_node = 0 THEN -1 ELSE self.nodeObj[o.from_node].node_id,
       to_node |-> IF o.to_node = 0 THEN -1 ELSE self.nodeObj[o.to_node].node_id]

\* The graph GetSnapshot returns: the nodes of node_dict by id, each with its
\* kind, class name and ordered outgoing and incoming edges.
GraphView(self) ==
  [id \in DOMAIN self.node_dict |->
     LET o == self.nodeObj[self.node_dict[id]]
     IN  [node_id |-> o.node_id, type_string |-> o.type_string,
          class_name |-> o.class_name, string |-> o.string,
          edges_from |-> [k \in 1..Len(o.edges_from) |-> EdgeView(self, o.edges_from[k])],
          edges_to |-> [k \in 1..Len(o.edges_to) |-> EdgeView(self, o.edges_to[k])]]]

\* The same data in the other encoding, parsed by a fresh Snapshotter.
OtherEncoding == GetSnapshot(NewSnapshotter, Heap(client.data, ~client.counted))

\* The sum of the edge_count fields of the records before offset ix_ of the
\* node array.
RECURSIVE CountsBefore(_, _)
CountsBefore(self, ix_) ==
  IF ix_ <= 0 THEN 0
  ELSE CountsBefore(self, ix_ - self.node_field_count)
         + Get(self.node_list, (ix_ - self.node_field_count) + self.node_edge_count_ix)

\* C7: the edges-index encoding and the edge-count encoding of the same node
\* and edge records parse to the same graph (node ids, kinds, class names,
\* ordered outgoing and incoming edges with endpoints, kind and label), and in
\* the edge-count layout the edge slice of every record starts at the edge
\* field count times the sum of the counts of all earlier records, filtered or
\* not.
C7_EncodingsParseToSameGraph ==
  /\ spc = "returned" =>
       /\ OtherEncoding.err = NoError
       /\ GraphView(OtherEncoding.self) = GraphView(snapshotter)
  /\ spc = "failed" => OtherEncoding.err = snap_error
  /\ (spc = "parsing" /\ snapshotter.node_edge_count_format) =>
       edge_start_ix = snapshotter.edge_field_count * CountsBefore(snapshotter, ix)

\* A parse in the edge-count layout has returned a graph in which a record that
\* follows a filtered record with edges has an outgoing edge.
C7_Witness ==
  /\ spc = "returned"
  /\ client.counted
  /\ \E k \in 1..NumRecords(client.data) :
       /\ IsNodeTypeUninteresting(NodeTypes[client.data.types[k] + 1])
       /\ client.data.edges[k] # <<>>
       /\ \E m \in (k + 1)..NumRecords(client.data) :
            /\ client.data.ids[m] \in DOMAIN snapshotter.node_dict
            /\ snapshotter.nodeObj[snapshotter.node_dict[client.data.ids[m]]].edges_from # <<>>

\* The Node objects GetSnapshot returns.
ReturnedNodes == {snapshotter.node_dict[id] : id \in DOMAIN snapshotter.node_dict}

\* The Edge objects of the returned graph.
ReturnedEdges ==
  UNION { Range(snapshotter.nodeObj[n].edges_from) \cup Range(snapshotter.nodeObj[n].edges_to) :
          n \in ReturnedNodes }

Occurrences(list, x) == Cardinality({k \in 1..Len(list) : list[k] = x})

\* C8: after GetSnapshot has returned on a fresh Snapshotter, every edge of the
\* graph occurs exactly once in the outgoing list of exactly one node and
\* exactly once in the incoming list of exactly one node, its from_node is the
\* node whose id is its from_node_id and its to_node is the node whose id is
\* its to_node_id.
C8_EdgesLinkedOnce ==
  spc = "returned" =>
    \A e \in ReturnedEdges :
      LET o == snapshotter.edgeObj[e]
      IN  /\ \E n \in ReturnedNodes :
               /\ Occurrences(snapshotter.nodeObj[n].edges_from, e) = 1
               /\ \A m \in ReturnedNodes \ {n} :
                    Occurrences(snapshotter.nodeObj[m].edges_from, e) = 0
          /\ \E n \in ReturnedNodes :
               /\ Occurrences(snapshotter.nodeObj[n].edges_to, e) = 1
               /\ \A m \in ReturnedNodes \ {n} :
                    Occurrences(snapshotter.nodeObj[m].edges_to, e) = 0
          /\ o.from_node \in ReturnedNodes
          /\ snapshotter.nodeObj[o.from_node].node_id = o.from_node_id
          /\ o.to_node \in ReturnedNodes
          /\ snapshotter.nodeObj[o.to_node].node_id = o.to_node_id

\* GetSnapshot has returned a graph of two nodes with two edges between
\* different nodes.
C8_Witness ==
  /\ spc = "returned"
  /\ Cardinality(ReturnedNodes) = 2
  /\ Cardinality({e \in ReturnedEdges :
                    snapshotter.edgeObj[e].from_node # snapshotter.edgeObj[e].to_node}) = 2

-----------------------------------------------------------------------------
(* Properties of SpecSupp *)

\* Whether pattern, with '*' for any run of characters, matches the whole of
\* text.
RECURSIVE Glob(_, _)
Glob(pattern, text) ==
  IF pattern = <<>> THEN text = <<>>
  ELSE IF Head(pattern) = "*"
  THEN \E k \in 0..Len(text) : Glob(Tail(pattern), SubSeq(text, k + 1, Len(text)))
  ELSE text # <<>> /\ Head(text) = Head(pattern) /\ Glob(Tail(pattern), Tail(text))

\* Whether the patterns can be laid over a leading part of frames in order,
\* an ellipsis absorbing zero or more frames and any other pattern one frame.
RECURSIVE LaidOver(_, _)
LaidOver(patterns, frames) ==
  IF patterns = <<>> THEN TRUE
  ELSE IF Head(patterns) = Ellipsis
  THEN \E k \in 0..Len(frames) :
         LaidOver(Tail(patterns), SubSeq(frames, k + 1, Len(frames)))
  ELSE /\ frames # <<>>
       /\ Glob(Head(patterns), Head(frames))
       /\ LaidOver(Tail(patterns), Tail(frames))

\* The text the regular expression is matched against.
ReportText == JoinWith(<<"\n">>, <<report.class_name>> \o report.stack) \o <<"\n">>

\* C9: a Suppression without frame patterns returns false from Match for every
\* class name and every list of frames, the class name equal to its own class
\* pattern and the empty list of frames included.
C9_EmptySuppressionNeverMatches ==
  (mpc = "matched" /\ suppression.stack = <<>>) => result = FALSE

\* Match has answered for a Suppression without frame patterns, asked about
\* its own class name and no frames, a text its regular expression matches.
C9_Witness ==
  /\ mpc = "matched"
  /\ suppression.stack = <<>>
  /\ report.class_name = suppression.class_name
  /\ report.stack = <<>>
  /\ MatchAt(suppression.regex, 1, ReportText, 1)

\* C10: for a Suppression with at least one frame pattern, Match is true
\* exactly when the class pattern matches the whole class name and the frame
\* patterns can be laid over a leading part of the frames in order, each
\* pattern other than '...' matching one whole frame ('*' standing for any run
\* of characters inside it) and each '...' absorbing zero or more frames.
C10_MatchIsLayOver ==
  (mpc = "matched" /\ suppression.stack # <<>>) =>
    (result = TRUE <=> /\ Glob(suppression.class_name, report.class_name)
                       /\ LaidOver(suppression.stack, report.stack))

\* Match has answered true for patterns foo, '...', bar and four frames, the
\* ellipsis absorbing two of them.
C10_Witness ==
  /\ mpc = "matched"
  /\ result = TRUE
  /\ Len(suppression.stack) = 3
  /\ suppression.stack[1] # Ellipsis
  /\ suppression.stack[2] = Ellipsis
  /\ suppression.stack[3] \notin {Ellipsis, <<"*">>}
  /\ Len(report.stack) = 4
  /\ ~Glob(suppression.stack[3], report.stack[2])
  /\ ~Glob(suppression.stack[3], report.stack[3])

\* C11: an ellipsis as class pattern is no wildcard: a Suppression whose class
\* pattern is exactly '...' matches only reports whose class name is the three
\* characters '...', whatever its frame patterns and the frames.
C11_EllipsisClassIsLiteral ==
  (mpc = "matched" /\ suppression.class_name = Ellipsis /\ result = TRUE)
    => report.class_name = Ellipsis

\* Match has answered true for a class pattern '...' and frame patterns that
\* start with an ellipsis.
C11_Witness ==
  /\ mpc = "matched"
  /\ suppression.class_name = Ellipsis
  /\ Len(suppression.stack) >= 2
  /\ suppression.stack[1] = Ellipsis
  /\ report.stack # <<>>
  /\ result = TRUE

\* C12: matching is anchored at the start only: if Match is true for a class
\* name and frames it is true for the same frames followed by any further
\* frame (and so, every longer stack being a report of its own, by any number
\* of further frames), and it is true only if the class pattern matches the
\* class name and the first frame pattern, unless an ellipsis, matches the
\* first frame.
C12_AnchoredAtStartOnly ==
  (mpc = "matched" /\ result = TRUE) =>
    /\ \A more \in ReportedFrames :
         Match(suppression, report.class_name, Append(report.stack, more))
    /\ Glob(suppression.class_name, report.class_name)
    /\ suppression.stack[1] # Ellipsis =>
         (report.stack # <<>> /\ Glob(suppression.stack[1], report.stack[1]))

\* Match has answered true although the frames go on after the last frame the
\* patterns cover.
C12_Witness ==
  /\ mpc = "matched"
  /\ result = TRUE
  /\ \A k \in 1..Len(suppression.stack) : suppression.stack[k] # Ellipsis
  /\ Len(report.stack) > Len(suppression.stack)
  /\ ~Glob(suppression.stack[Len(suppression.stack)], report.stack[Len(report.stack)])

-----------------------------------------------------------------------------
(* Properties of SpecRead *)

\* A line that is neither blank nor a comment.
IsContent(raw) == Strip(raw) # <<>> /\ ~LineStartsWith(Strip(raw), <<"#">>)

IsOpener(raw) == LineStartsWith(Strip(raw), <<"{">>)

IsCloser(raw) == LineStartsWith(Strip(raw), <<"}">>)

\* Whether a block is open after the first n lines of the file.
RECURSIVE OpenAfter(_, _)
OpenAfter(lines, n) ==
  IF n = 0 THEN FALSE
  ELSE IF ~IsContent(lines[n]) THEN OpenAfter(lines, n - 1)
  ELSE IF OpenAfter(lines, n - 1) THEN ~IsCloser(lines[n])
  ELSE IsOpener(lines[n])

\* Line n is met outside any block and is neither blank, a comment nor a
\* block opener.
Offending(lines, n) ==
  IsContent(lines[n]) /\ ~IsOpener(lines[n]) /\ ~OpenAfter(lines, n - 1)

\* C13: ReadSuppressionsFromFile raises ParseError naming the line number for
\* every non-blank, non-comment line outside any block other than a block
\* opener, a '}' with no open block included, raises UnexpectedEofError when
\* the input ends inside a block, and returns no list in either case.
C13_ReadErrors ==
  LET n == rd.line_no
  IN  /\ (rpc \in {"reading", "failed", "returned"} /\ n >= 1 /\ Offending(fp, n)) =>
           /\ rpc = "failed"
           /\ read_error = Raise("ParseError",
                                 ReadMessage(n, "Expected beginning of suppression"))
      /\ (rpc = "failed" /\ n >= 1 /\ ~Offending(fp, n)) =>
           /\ n = Len(fp)
           /\ OpenAfter(fp, n)
           /\ read_error.raised = "UnexpectedEofError"
      /\ rpc = "returned" =>
           /\ ~OpenAfter(fp, Len(fp))
           /\ \A k \in 1..Len(fp) : ~Offending(fp, k)

\* Every block of the file is closed, no block is opened inside another and
\* no line stands outside the blocks.
WellFormed(lines) ==
  /\ ~OpenAfter(lines, Len(lines))
  /\ \A k \in 1..Len(lines) :
       /\ ~Offending(lines, k)
       /\ (IsContent(lines[k]) /\ IsOpener(lines[k])) => ~OpenAfter(lines, k - 1)

\* The blocks closed within the first n lines, each the sequence of its
\* stripped non-comment lines; cur holds the lines of the block that is open.
RECURSIVE BlocksOf(_, _, _)
BlocksOf(lines, i, cur) ==
  IF i > Len(lines) THEN <<>>
  ELSE IF ~IsContent(lines[i]) THEN BlocksOf(lines, i + 1, cur)
  ELSE IF ~OpenAfter(lines, i - 1) THEN BlocksOf(lines, i + 1, <<>>)
  ELSE IF IsCloser(lines[i]) THEN <<cur>> \o BlocksOf(lines, i + 1, <<>>)
  ELSE BlocksOf(lines, i + 1, Append(cur, Strip(lines[i])))

\* The description, class pattern and frame patterns a block stands for.
BlockFields(block) ==
  [description |-> IF Len(block) >= 1 THEN block[1] ELSE None,
   class_name |-> IF Len(block) >= 2 THEN block[2] ELSE None,
   stack |-> [k \in 1..(IF Len(block) >= 2 THEN Len(block) - 2 ELSE 0) |->
                IF LineStartsWith(block[k + 2], Ellipsis) THEN Ellipsis ELSE block[k + 2]]]

SuppressionFields(supp) ==
  [description |-> supp.description, class_name |-> supp.class_name, stack |-> supp.stack]

\* C14: for an input in which every block is closed, ReadSuppressionsFromFile
\* returns one Suppression per block, in file order, with the block's first
\* non-comment line as description, the second as class pattern and the later
\* ones as frame patterns (a line starting with '...' as the token '...'),
\* nothing carried over between blocks, for blocks of any number of lines.
C14_OneSuppressionPerBlock ==
  (rpc \in {"reading", "failed", "returned"} /\ WellFormed(fp)) =>
    /\ rpc # "failed"
    /\ rpc = "returned" =>
         LET blocks == BlocksOf(fp, 1, <<>>)
         IN  /\ Len(rd.result) = Len(blocks)
             /\ \A k \in 1..Len(blocks) :
                  SuppressionFields(rd.result[k]) = BlockFields(blocks[k])

-----------------------------------------------------------------------------
(* Order of the candidates *)

\* The element edges FindLeaks has reported as leaks, in the order of the
\* yields, each with its container.
Yielded == SelectSeq(log, LAMBDA r : r.leak)

\* Position of edge e among the outgoing edges of container c.
EdgePosition(c, e) == CHOOSE k \in 1..Len(edges_from[c]) : edges_from[c][k] = e

\* C18: FindLeaks emits the candidates in the declaration order of the
\* container chains and, within a container, in the order of its element
\* edges.
C18_CandidatesInDeclarationOrder ==
  \A i, j \in 1..Len(Yielded) :
    i < j =>
      LET a == Yielded[i]
          b == Yielded[j]
      IN  /\ FirstMatch(a.container, container_description)
               <= FirstMatch(b.container, container_description)
          /\ a.container = b.container =>
               EdgePosition(a.container, a.edge) < EdgePosition(b.container, b.edge)

-----------------------------------------------------------------------------
(* Properties of SpecFilter *)

\* The positions of the loaded suppressions that match the leak.
MatchingLoaded(leak) ==
  {i \in 1..Len(loaded) : Match(loaded[i], leak.class_name, leak.stack.frames)}

\* C15: a candidate with a stack that matches at least one loaded suppression
\* raises by one the hit count of the first loaded suppression, in file order,
\* that matches it and of no other, and is neither tested against nor counted
\* in any new-leak group.
C15_FirstLoadedMatchCounts ==
  [][(/\ fpc = "filtering"
      /\ leak_ix' = leak_ix + 1
      /\ candidates[leak_ix + 1].stack.resolved
      /\ MatchingLoaded(candidates[leak_ix + 1]) # {})
     => LET hits  == MatchingLoaded(candidates[leak_ix + 1])
            first == CHOOSE i \in hits : \A j \in hits : i <= j
        IN  /\ \A i \in 1..Len(loaded) :
                 GetCount(matched_suppressions', i - 1)
                   = GetCount(matched_suppressions, i - 1) + (IF i = first THEN 1 ELSE 0)
            /\ new_leaks' = new_leaks
            /\ handled'[leak_ix + 1].tested_known = {}]_vars

\* A leak that both loaded suppressions match has been handled while a
\* new-leak group existed.
C15_Witness ==
  /\ fpc = "returned"
  /\ \E k \in 2..leak_ix :
       /\ handled[k].how = "suppressed"
       /\ Cardinality(MatchingLoaded(candidates[k])) = 2
       /\ \E m \in 1..(k - 1) : handled[m].how = "new"

\* The later leak has the class name of the recorded one and its frames begin
\* with the frames of the recorded one.
Literal(recorded, leak) ==
  /\ leak.class_name = recorded.class_name
  /\ Len(leak.stack.frames) >= Len(recorded.stack.frames)
  /\ SubSeq(leak.stack.frames, 1, Len(recorded.stack.frames)) = recorded.stack.frames

\* The new-leak groups that exist when the k-th leak is handled.
GroupsBefore(k) == {handled[m].at : m \in {n \in 1..(k - 1) : handled[n].how = "new"}}

\* C16: the suppression built from an unmatched leak is literal: a later
\* candidate is counted into that leak's group exactly when it has the leak's
\* class name and its frames begin with the leak's frames, nothing of the
\* recorded leak acting as a wildcard.
C16_SyntheticSuppressionIsLiteral ==
  \A k \in 1..leak_ix :
    handled[k].how \in {"known", "new"} =>
      LET lit == {g \in GroupsBefore(k) : Literal(new_leaks[g].leak, candidates[k])}
      IN  IF lit = {} THEN handled[k].how = "new"
          ELSE /\ handled[k].how = "known"
               /\ handled[k].at = CHOOSE g \in lit : \A h \in lit : g <= h

RECURSIVE SumTo(_, _)
SumTo(f, n) == IF n = 0 THEN 0 ELSE f[n] + SumTo(f, n - 1)

\* The leaks handled so far that had a stack.
WithStack == {k \in 1..leak_ix : candidates[k].stack.resolved}

\* C17: every candidate is accounted for exactly once: one without a stack is
\* left out of all matching and of every count, every other one is counted in
\* the hit count of exactly one loaded suppression or in the member count of
\* exactly one new-leak group, so that the counts add up to the number of
\* candidates with a stack.
C17_EveryCandidateCountedOnce ==
  fpc \in {"filtering", "returned"} =>
    /\ \A k \in (1..leak_ix) \ WithStack :
         /\ handled[k].how = "no stack"
         /\ handled[k].tested_loaded = {}
         /\ handled[k].tested_known = {}
    /\ \A k \in WithStack : handled[k].how \in {"suppressed", "known", "new"}
    /\ \A i \in 1..Len(loaded) :
         GetCount(matched_suppressions, i - 1)
           = Cardinality({k \in WithStack : handled[k].how = "suppressed" /\ handled[k].at = i})
    /\ DOMAIN matched_suppressions \subseteq 0..(Len(loaded) - 1)
    /\ \A g \in 1..Len(new_leaks) :
         new_leaks[g].count
           = Cardinality({k \in WithStack : handled[k].how \in {"known", "new"}
                                             /\ handled[k].at = g})
    /\ SumTo([i \in 1..Len(loaded) |-> GetCount(matched_suppressions, i - 1)], Len(loaded))
         + SumTo([g \in 1..Len(new_leaks) |-> new_leaks[g].count], Len(new_leaks))
       = Cardinality(WithStack)

\* The run has returned after a leak without a stack, a suppressed leak and a
\* new leak.
C17_Witness ==
  /\ fpc = "returned"
  /\ \E k \in 1..leak_ix : handled[k].how = "no stack"
  /\ \E k \in 1..leak_ix : handled[k].how = "suppressed"
  /\ \E k \in 1..leak_ix : handled[k].how = "new"

-----------------------------------------------------------------------------
(* Properties of SpecMeta *)

\* The required names the metadata of the payload lacks; edge_count stands for
\* a node field list with neither layout field.
MissingFields(heap) ==
  LET nf == heap.snapshot.meta.node_fields
      ef == heap.snapshot.meta.edge_fields
  IN  {f \in {"type", "name", "id"} : ~Has(f, nf)}
        \cup (IF Has("edges_index", nf) \/ Has("edge_count", nf) THEN {} ELSE {"edge_count"})
        \cup {f \in {"type", "name_or_index", "to_node"} : ~Has(f, ef)}

\* The same data in a payload that names the edges_index layout alone.
IndexLayoutAlone == GetSnapshot(NewSnapshotter, Heap(client.data, FALSE))

\* C19: if the node field list lacks 'type', 'name' or 'id' or both layout
\* fields, or the edge field list lacks 'type', 'name_or_index' or 'to_node',
\* GetSnapshot fails with an Error that names a missing field, and no node has
\* been created; if the node field list names both layouts, one layout (that
\* of edges_index) is used for every record, whatever the edge_count column
\* holds.
C19_MissingFieldIsFormatError ==
  LET heap == HeapOf(client)
      nf   == heap.snapshot.meta.node_fields
  IN  /\ (spc # "new" /\ MissingFields(heap) # {}) =>
            /\ spc = "failed"
            /\ snap_error.raised = "Error"
            /\ \E f \in MissingFields(heap) :
                 snap_error.msg = "Cannot find field " \o f \o " from the snapshot"
            /\ snapshotter.allocated = 0
            /\ snapshotter.node_dict = <<>>
            /\ snapshotter.nodeObj = <<>>
      /\ (spc # "new" /\ MissingFields(heap) = {}) => snap_error.raised # "Error"
      /\ (spc # "new" /\ Has("edges_index", nf) /\ Has("edge_count", nf)) =>
            /\ ~snapshotter.node_edge_count_format
            /\ spc = "returned" =>
                 /\ IndexLayoutAlone.err = NoError
                 /\ GraphView(snapshotter) = GraphView(IndexLayoutAlone.self)
            /\ spc = "failed" => IndexLayoutAlone.err = snap_error

\* GetSnapshot has failed on a payload whose node field list names neither
\* layout and whose edge field list lacks a name too.
C19_Witness ==
  /\ spc = "failed"
  /\ client.fault.nodes_lack = LayoutFields
  /\ client.fault.edges_lack = {"to_node"}
  /\ client.data.edges[1] # <<>>

-----------------------------------------------------------------------------
(* Properties of SpecCut *)

\* Some node record of the payload extends past the end of the node array.
NodeRecordPastEnd(heap) ==
  Len(heap.nodes) % Len(heap.snapshot.meta.node_fields) # 0

\* The edge slice that some node record of the payload declares extends past
\* the end of the edge array.
EdgeSlicePastEnd(c, heap) ==
  \E k \in 1..NumRecords(c.data) :
    /\ k * Len(heap.snapshot.meta.node_fields) <= Len(heap.nodes)
    /\ c.data.edges[k] # <<>>
    /\ Len(heap.snapshot.meta.edge_fields) * (EdgeCountBefore(c.data, k) + Len(c.data.edges[k]))
         > Len(heap.edges)

TruncatedErrors ==
  { Raise("Error", "Snapshot node list too short"),
    Raise("Error", "Snapshot edge list too short") }

\* C20: whenever a node record, or the edge slice a node record declares
\* (through edges_index or through edge_count, the record being of a kept or
\* of a filtered kind), extends past the end of its array, GetSnapshot fails
\* with the truncated-data Error and returns no graph.
C20_TruncatedDataIsError ==
  LET heap == HeapOf(client)
  IN  (NodeRecordPastEnd(heap) \/ EdgeSlicePastEnd(client, heap)) =>
        /\ spc # "returned"
        /\ spc = "failed" => snap_error \in TruncatedErrors

-----------------------------------------------------------------------------
(* Properties of SpecShift *)

\* The Edge objects of the nodes read so far whose target id has no Node.
DanglingEdges(self) ==
  {e \in UNION {Range(self.nodeObj[self.node_dict[id]].edges_from) : id \in DOMAIN self.node_dict} :
     self.edgeObj[e].to_node_id \notin DOMAIN self.node_dict}

\* C21: if, after all nodes are constructed, a kept edge refers to a target id
\* for which no Node exists, GetSnapshot returns no graph and fails with the
\* module's Error carrying a message.
C21_DanglingEdgeIsError ==
  [][(/\ spc = "parsing"
      /\ ix >= Len(snapshotter.node_list)
      /\ DanglingEdges(snapshotter) # {})
     => /\ spc' = "failed"
        /\ snap_error'.raised = "Error"
        /\ snap_error'.msg # ""]_vars

-----------------------------------------------------------------------------
(* The candidates of FindLeaks *)

\* C22: FindLeaks emits at most one candidate per element edge that leaves a
\* container node and none for anything else; the node of the candidate is the
\* target of that edge and its locator expression is the prefix, the chain of
\* the container joined by '.', and the label of the edge in brackets.
C22_OneCandidatePerElementEdge ==
  /\ Len(leaks) = Len(Yielded)
  /\ \A i, j \in 1..Len(log) : log[i].edge.eid = log[j].edge.eid => i = j
  /\ \A k \in 1..Len(leaks) :
       LET c    == Yielded[k].container
           edge == Yielded[k].edge
       IN  /\ c \in ContainersOf
           /\ edge \in Range(edges_from[c])
           /\ edge.type_string = "element"
           /\ leaks[k].node = edge.to_node
           /\ leaks[k].how_to_find_node =
                stacktrace_prefix
                  \o Join(container_description[FirstMatch(c, container_description)])
                  \o "[" \o edge.name_string \o "]"

\* A run with a prefix has finished with a candidate, on a graph in which a
\* container has an outgoing property edge and another node an outgoing
\* element edge.
C22_Witness ==
  /\ pc = "done"
  /\ stacktrace_prefix # ""
  /\ leaks # <<>>
  /\ \E c \in containers : \E e \in Range(edges_from[c]) : e.type_string = "property"
  /\ \E n \in nodes \ containers : \E e \in Range(edges_from[n]) : e.type_string = "element"

-----------------------------------------------------------------------------
(* The retaining-path search *)

\* p begins with start, each next node is the source of an incoming edge of
\* the previous one, no node occurs twice, the last node is in stop or has no
\* incoming edges and no earlier node is or has.
IsRetainingPath(p, start, stop) ==
  /\ p # <<>>
  /\ p[1] = start
  /\ \A i \in 1..(Len(p) - 1) :
       /\ \E k \in 1..Len(edges_to[p[i]]) : edges_to[p[i]][k].from_node = p[i + 1]
       /\ p[i] \notin stop
       /\ edges_to[p[i]] # <<>>
  /\ \A i, j \in 1..Len(p) : p[i] = p[j] => i = j
  /\ Last(p) \in stop \/ edges_to[Last(p)] = <<>>

\* No two edges have the same source and the same target.
NoParallelEdges ==
  \A n \in nodes : \A i, j \in 1..Len(edges_to[n]) :
    edges_to[n][i].from_node = edges_to[n][j].from_node => i = j

-----------------------------------------------------------------------------
(* Termination (SpecFair) *)

\* The generator is exhausted, FindLeaks has raised its Error, or the direct
\* call of the search has returned.
Terminated == pc \in {"done", "error", "searched"}

\* C24: FindLeaks terminates on every graph and every configuration, with
\* retention cycles, self-loops and parallel edges: every run reaches its end,
\* the chain test and the retaining-path search returning in each step.
C24_FindLeaksTerminates == <>Terminated

\* A run has ended after it examined an element that retains itself.
C24_Witness ==
  /\ pc = "done"
  /\ \E k \in 1..Len(log) : log[k].edge.to_node \in Retainers(log[k].edge.to_node)

-----------------------------------------------------------------------------
(* The stop nodes during a run *)

\* C25: throughout a run of FindLeaks the stop nodes only grow, the bad stop
\* nodes do not change once the classification has ended and are always among
\* the stop nodes, every container is a bad stop node, and no node that the
\* path search adds to the stop nodes is a bad stop node.
C25_StopNodeSets ==
  [][/\ stop_nodes \subseteq stop_nodes'
     /\ pc \in {"running", "done"} => bad_stop_nodes' = bad_stop_nodes
     /\ bad_stop_nodes' \subseteq stop_nodes'
     /\ containers' \subseteq bad_stop_nodes'
     /\ pc = "running" => (stop_nodes' \ stop_nodes) \cap bad_stop_nodes' = {}]_vars

\* A run has ended in which the path search added stop nodes and in which some
\* bad stop node is no container.
C25_Witness ==
  /\ pc = "done"
  /\ stop_nodes # StopNodesOf
  /\ bad_stop_nodes \ containers # {}

-----------------------------------------------------------------------------
(* Window nodes *)

\* The class name is 'Window' or starts with 'Window / '.
WindowName(cn) ==
  \/ cn = <<"W", "i", "n", "d", "o", "w">>
  \/ /\ Len(cn) >= 9
     /\ SubSeq(cn, 1, 9) = <<"W", "i", "n", "d", "o", "w", " ", "/", " ">>

\* C26: a node whose class name is 'Window' or starts with 'Window / ' is a
\* stop node and never a bad stop node, also when a bad-retainer chain or a
\* container chain retains it, and an element with a yielded path that ends
\* at such a node is not reported.
C26_WindowIsGoodStopNode ==
  pc \in {"running", "done", "error"} =>
    /\ \A n \in nodes :
         WindowName(class_name[n]) =>
           /\ n \in stop_nodes
           /\ n \notin bad_stop_nodes
           /\ n \notin containers
    /\ \A k \in 1..Len(log) :
         LET t     == log[k].edge.to_node
             paths == FindRetainingPaths(t, <<t>>, log[k].stop)
         IN  (\E i \in 1..Len(paths) : WindowName(class_name[Last(paths[i])]))
               => ~log[k].leak

\* A run has ended in which a path of an element ended at a Window node that
\* a bad-retainer chain retains.
C26_Witness ==
  /\ pc = "done"
  /\ \E n \in nodes :
       /\ WindowName(class_name[n])
       /\ FirstMatch(n, bad_stop_node_description) > 0
       /\ \E k \in 1..Len(log) :
            LET t     == log[k].edge.to_node
                paths == FindRetainingPaths(t, <<t>>, log[k].stop)
            IN  \E i \in 1..Len(paths) : Len(paths[i]) > 1 /\ Last(paths[i]) = n

-----------------------------------------------------------------------------
(* The chain test *)

MaxChain == 2    \* names in a tested chain

ChainNames == {"b", "x"}

\* The chains the test is tried with.
TestChains == SeqsUpTo(ChainNames, MaxChain)

\* The nodes nk for which nodes n0, ..., nk exist such that, for each i in
\* 1..k, an edge labelled chain[i] leaves n(i-1) and is listed among the
\* incoming edges of ni.  Any node may be n0.
RECURSIVE WalkEnds(_)
WalkEnds(chain) ==
  IF chain = <<>> THEN nodes
  ELSE LET k    == Len(chain)
           prev == WalkEnds(SubSeq(chain, 1, k - 1))
       IN  {m \in nodes :
              \E i \in 1..Len(edges_to[m]) :
                /\ edges_to[m][i].from_node \in prev
                /\ edges_to[m][i].name_string = chain[k]}

\* C27: the chain test is true for a node and a chain [e1, ..., ek] exactly
\* when a walk n0, ..., nk ends at the node whose i-th edge is an incoming
\* edge of ni labelled ei; the classification uses that answer.  A run never
\* changes the graph, so the test chains are tried on the graph a run starts
\* with.
C27_ChainTestIsWalk ==
  /\ pc = "ready" =>
       \A chain \in TestChains :
         {n \in nodes : IsRetainedByEdges(n, chain)} = WalkEnds(chain)
  /\ pc \in {"running", "done"} =>
       bad_stop_nodes =
         {n \in UNION {WalkEnds(chain) : chain \in Range(bad_stop_node_description)
                                            \cup Range(container_description)} :
            ~IsWindow(n)}

\* The classification found a bad retainer by a chain of two names: one
\* retainer of the node with the last name is not retained by the rest of the
\* chain, another one is, and the chain in the other order fails for the node.
C27_Witness ==
  /\ pc = "running"
  /\ bad_stop_node_description = << <<"b", "x">> >>
  /\ \E n \in bad_stop_nodes :
       /\ IsRetainedByEdges(n, <<"b", "x">>)
       /\ ~IsRetainedByEdges(n, <<"x", "b">>)
       /\ \E i \in 1..Len(edges_to[n]) :
            /\ edges_to[n][i].name_string = "x"
            /\ ~IsRetainedByEdges(edges_to[n][i].from_node, <<"b">>)
            /\ \E j \in 1..Len(edges_to[n]) :
                 /\ edges_to[n][j].name_string = "x"
                 /\ IsRetainedByEdges(edges_to[n][j].from_node, <<"b">>)

-----------------------------------------------------------------------------
(* The kind of the edges of a chain *)

\* The node is retained by the chain through property edges only.
RECURSIVE IsRetainedByPropertyEdges(_, _)
IsRetainedByPropertyEdges(node, edge_names) ==
  IF edge_names = <<>> THEN TRUE
  ELSE \E i \in 1..Len(edges_to[node]) :
         /\ edges_to[node][i].type_string = "property"
         /\ edges_to[node][i].name_string = Last(edge_names)
         /\ IsRetainedByPropertyEdges(edges_to[node][i].from_node,
                                      SubSeq(edge_names, 1, Len(edge_names) - 1))

\* C28: only property edges take part in matching a chain: every container
\* is retained by a container chain through property edges, and every other
\* bad stop node by a bad-retainer chain through property edges.
C28_OnlyPropertyEdgesMatch ==
  pc \in {"running", "done"} =>
    /\ \A n \in containers :
         \E i \in 1..Len(container_description) :
           IsRetainedByPropertyEdges(n, container_description[i])
    /\ \A n \in bad_stop_nodes \ containers :
         \E i \in 1..Len(bad_stop_node_description) :
           IsRetainedByPropertyEdges(n, bad_stop_node_description[i])

-----------------------------------------------------------------------------
(* The records a parse keeps *)

UniqueIds(data) ==
  \A k, m \in 1..NumRecords(data) : data.ids[k] = data.ids[m] => k = m

\* The kind of record k of the data is none of the dropped node kinds.
KeptRecord(data, k) ==
  client.node_types[data.types[k] + 1] \notin {"hidden", "code", "number", "native", "synthetic"}

\* The edge record leaves a kept record, is of none of the dropped edge
\* kinds, and its target record is kept.
KeptEdgeRecord(data, e) ==
  /\ KeptRecord(data, e.owner)
  /\ client.edge_types[e.type + 1] \notin {"weak", "hidden", "internal"}
  /\ KeptRecord(data, e.to)

\* An edge record as the graph shows it.
RecordView(data, e) ==
  [from_node_id |-> data.ids[e.owner], to_node_id |-> data.ids[e.to],
   type_string |-> client.edge_types[e.type + 1]]

\* An edge of the graph, without its label.
EndsView(v) ==
  [from_node_id |-> v.from_node_id, to_node_id |-> v.to_node_id,
   type_string |-> v.type_string]

\* C29: after a successful parse of a snapshot with unique node ids the
\* graph holds exactly the records of a kept kind, each with the kept edge
\* records that leave it, in their order, and with as many incoming edges as
\* kept edge records point at it; both ends of every edge are nodes of the
\* graph.
C29_GraphHoldsKeptRecords ==
  (spc = "returned" /\ UniqueIds(client.data)) =>
    LET data  == client.data
        graph == GraphView(snapshotter)
    IN  /\ DOMAIN graph = {data.ids[k] : k \in {m \in 1..NumRecords(data) : KeptRecord(data, m)}}
        /\ \A k \in 1..NumRecords(data) :
             KeptRecord(data, k) =>
               LET node == graph[data.ids[k]]
                   kept == SelectSeq(data.edges[k], LAMBDA e : KeptEdgeRecord(data, e))
               IN  /\ node.type_string = client.node_types[data.types[k] + 1]
                   /\ [j \in 1..Len(node.edges_from) |-> EndsView(node.edges_from[j])]
                        = [j \in 1..Len(kept) |-> RecordView(data, kept[j])]
                   /\ Len(node.edges_to)
                        = Cardinality({e \in UNION {Range(data.edges[m]) : m \in 1..NumRecords(data)} :
                                         KeptEdgeRecord(data, e) /\ e.to = k})
                   /\ \A j \in 1..Len(node.edges_to) : node.edges_to[j].to_node_id = data.ids[k]
        /\ \A e \in ReturnedEdges :
             /\ snapshotter.edgeObj[e].from_node \in ReturnedNodes
             /\ snapshotter.edgeObj[e].to_node \in ReturnedNodes

\* A parse of a snapshot with unique ids has returned a graph with an edge,
\* and an edge record that leaves a kept record is not in the graph.
C29_Witness ==
  /\ spc = "returned"
  /\ UniqueIds(client.data)
  /\ NumRecords(client.data) > 1
  /\ ReturnedEdges # {}
  /\ \E k \in 1..NumRecords(client.data) :
       \E j \in 1..Len(client.data.edges[k]) :
         LET e == client.data.edges[k][j]
         IN  /\ KeptRecord(client.data, k)
             /\ ~KeptEdgeRecord(client.data, e)

-----------------------------------------------------------------------------
(* Properties of SpecAgain *)

\* What a fresh Snapshotter returns for the payload of the last call.
FreshParse == GetSnapshot(NewSnapshotter, HeapOf(client))

\* C30: the graph the last of several GetSnapshot calls on one Snapshotter
\* returns is the graph a fresh Snapshotter returns for the last payload, and
\* no edge is listed twice in the incoming list of a node.
C30_LastCallAsFresh ==
  (spc = "returned" /\ "later" \in DOMAIN client /\ client.later = <<>>) =>
    /\ FreshParse.err = NoError
    /\ GraphView(snapshotter) = GraphView(FreshParse.self)
    /\ \A n \in ReturnedNodes :
         \A e \in Range(snapshotter.nodeObj[n].edges_to) :
           Occurrences(snapshotter.nodeObj[n].edges_to, e) = 1

=========================================================================
